---- MODULE Spec2Model ----
(***************************************************************************)
(* A model of the resume parsing engine of SCV/utils/parse_resume.py.      *)
(*                                                                         *)
(* Texts and lines are strings, handled one character at a time: Ch(s, i)  *)
(* is the i-th character of s (a string of length 1), so the conversions   *)
(* of the source (lower(), strip(), split(), the regular expressions) are  *)
(* computed on the characters as the source computes them.                 *)
(*                                                                         *)
(* The top-level parser parse_resume_text is a pipeline; every stage is    *)
(* one action and pc names the stage reached.  The loop of                 *)
(* segment_sections is modelled line by line (SegBegin, SegStep,           *)
(* SegFinish).  Spec runs the pipeline on whole documents; SpecNorm,       *)
(* SpecFilter, SpecHeader, SpecSeg and SpecExp start where one component   *)
(* is about to be called and draw its argument from a bounded set.         *)
(***************************************************************************)
EXTENDS Integers, Sequences, FiniteSets, TLC

VARIABLES
    pc,               \* the stage of parse_resume_text reached
    raw_text,         \* parse_resume_text: raw_text
    cleaned,          \* parse_resume_text: cleaned
    t,                \* preprocess_text_into_blocks: t
    rf_blocks,        \* remove_repeated_header_footer: blocks (its argument)
    blocks,           \* parse_resume_text: blocks
    flat_lines,       \* parse_resume_text: flat_lines
    scan_lines,       \* extract_header_info: scan_lines
    name,             \* extract_header_info: name_candidate
    name_index,       \* extract_header_info: name_index (from 0; NoIndex for None)
    contact,          \* extract_header_info: contact
    remaining,        \* extract_header_info: remaining
    sections,         \* segment_sections: sections
    current_section,  \* segment_sections: current_section
    seg_i,            \* segment_sections: number of lines the loop has consumed
    experience,       \* parse_resume_text: experience
    projects,         \* parse_resume_text: projects
    education,        \* parse_resume_text: education
    skills,           \* parse_resume_text: skills
    other,            \* parse_resume_text: other
    exp_entries,      \* parse_experience_section: entries
    exp_i,            \* parse_experience_section: i
    exp_passes        \* the passes of parse_experience_section's outer loop so far

textVars   == <<raw_text, cleaned, t>>
blockVars  == <<rf_blocks, blocks, flat_lines>>
headerVars == <<scan_lines, name, name_index, contact, remaining>>
segVars    == <<sections, current_section, seg_i>>
entryVars  == <<experience, projects, education, skills, other>>
loopVars   == <<exp_entries, exp_i, exp_passes>>

vars == <<pc, textVars, blockVars, headerVars, segVars, entryVars, loopVars>>

\* Python's None, where a string is expected.
NoneV == "<None>"

\* Python's None, where an index is expected (name_index, line 112).
NoIndex == -1

-----------------------------------------------------------------------------
(* Characters and strings *)

Ch(s, i) == SubSeq(s, i, i)

LowerSeq == "abcdefghijklmnopqrstuvwxyz"
UpperSeq == "ABCDEFGHIJKLMNOPQRSTUVWXYZ"
DigitSeq == "0123456789"

CharsOf(s) == {Ch(s, i) : i \in 1..Len(s)}

Lower == CharsOf(LowerSeq)
Upper == CharsOf(UpperSeq)
Digit == CharsOf(DigitSeq)

\* str.isspace() / the class \s, on the characters the model uses.
Space == {" ", "\t", "\n", "\r"}

\* The class \w.
WordCh == Lower \cup Upper \cup Digit \cup {"_"}

ToLowerCh == [c \in Upper |-> Ch(LowerSeq, CHOOSE i \in 1..26 : Ch(UpperSeq, i) = c)]
ToUpperCh == [c \in Lower |-> Ch(UpperSeq, CHOOSE i \in 1..26 : Ch(LowerSeq, i) = c)]

\* The least element of the set S of positions, 0 when S is empty.
LeastOr0(S) == IF S = {} THEN 0 ELSE CHOOSE x \in S : \A y \in S : x <= y

RECURSIVE MapStr(_, _, _, _)
\* s[lo..hi] with every character c of DOMAIN f replaced by f[c]: one character,
\* or the two halves of a longer text.
MapStr(f, s, lo, hi) ==
    IF lo > hi THEN ""
    ELSE IF lo = hi THEN (IF Ch(s, lo) \in DOMAIN f THEN f[Ch(s, lo)] ELSE Ch(s, lo))
    ELSE MapStr(f, s, lo, (lo + hi) \div 2) \o MapStr(f, s, (lo + hi) \div 2 + 1, hi)

\* str.lower(), str.upper()
lower(s) == MapStr(ToLowerCh, s, 1, Len(s))
upper(s) == MapStr(ToUpperCh, s, 1, Len(s))

RECURSIVE RunEnd(_, _, _)
\* The last position of the maximal run of characters of class C that starts at
\* position i; i - 1 when the run is empty.
RunEnd(s, i, C) ==
    IF i <= Len(s) /\ Ch(s, i) \in C THEN RunEnd(s, i + 1, C) ELSE i - 1

RECURSIVE RunStart(_, _, _)
\* The first position of the maximal run of characters of class C that ends at
\* position i; i + 1 when the run is empty.
RunStart(s, i, C) ==
    IF i >= 1 /\ Ch(s, i) \in C THEN RunStart(s, i - 1, C) ELSE i + 1

\* str.strip()
strip(s) ==
    LET a == RunEnd(s, 1, Space) + 1
        b == RunStart(s, Len(s), Space) - 1
    IN  IF a > b THEN "" ELSE SubSeq(s, a, b)

RECURSIVE SplitWs(_, _)
\* str.split() with no separator: the maximal runs of non-space characters.
SplitWs(s, i) ==
    LET a == RunEnd(s, i, Space) + 1
    IN  IF a > Len(s) THEN <<>>
        ELSE LET b == RunEnd(s, a, CharsOf(s) \ Space)
             IN  <<SubSeq(s, a, b)>> \o SplitWs(s, b + 1)

split(s) == SplitWs(s, 1)

\* p is a prefix of s from position i on: s[i:].startswith(p)
StartsAt(s, i, p) ==
    /\ i + Len(p) - 1 <= Len(s)
    /\ SubSeq(s, i, i + Len(p) - 1) = p

startswith(s, p) == StartsAt(s, 1, p)

\* p in s
Contains(s, p) == \E i \in 1..(Len(s) - Len(p) + 1) : StartsAt(s, i, p)

RECURSIVE Flatten(_)
\* [ln for block in blocks for ln in block]
Flatten(bs) == IF bs = <<>> THEN <<>> ELSE Head(bs) \o Flatten(Tail(bs))

\* The elements of the sequence q.
Range(q) == {q[i] : i \in 1..Len(q)}

\* The number of elements of q that satisfy test.
Count(q, test(_)) == Cardinality({i \in 1..Len(q) : test(q[i])})

\* lines[:n]
Take(lines, n) == SubSeq(lines, 1, IF n < Len(lines) THEN n ELSE Len(lines))

\* The first element of q that satisfies test, as a sequence of at most one.
FirstWhere(q, test(_)) ==
    LET hits == {k \in 1..Len(q) : test(q[k])}
    IN  IF hits = {} THEN <<>> ELSE <<q[CHOOSE k \in hits : \A k2 \in hits : k <= k2]>>

RECURSIVE SplitOn(_, _, _)
\* The piece of s from position a up to the occurrence of sep at position j, and
\* the pieces after it; the rest of s when j is 0.
SplitOnAt(s, sep, a, j) ==
    IF j = 0 THEN <<SubSeq(s, a, Len(s))>>
    ELSE <<SubSeq(s, a, j - 1)>> \o SplitOn(s, sep, j + Len(sep))

\* str.split(sep) for a non-empty separator, from position a on: the pieces
\* between the occurrences of sep found from the left, without overlap.
SplitOn(s, sep, a) ==
    SplitOnAt(s, sep, a, LeastOr0({j \in a..Len(s) : StartsAt(s, j, sep)}))

RECURSIVE SplitLinesFrom(_, _)
\* The line of s from position a up to the line break at position j, and the
\* lines after it; the rest of s, when it is not empty, when j is 0.
SplitLinesAt(s, a, j) ==
    IF j = 0 THEN (IF a > Len(s) THEN <<>> ELSE <<SubSeq(s, a, Len(s))>>)
    ELSE <<SubSeq(s, a, j - 1)>>
         \o SplitLinesFrom(s, IF Ch(s, j) = "\r" /\ StartsAt(s, j + 1, "\n")
                                THEN j + 2 ELSE j + 1)

\* str.splitlines() on the line boundaries the model uses: "\n", "\r" and
\* "\r\n".  The empty piece after a final line break is not a line.
SplitLinesFrom(s, a) ==
    SplitLinesAt(s, a, LeastOr0({j \in a..Len(s) : Ch(s, j) \in {"\n", "\r"}}))

splitlines(s) == SplitLinesFrom(s, 1)

RECURSIVE StripNonEmpty(_)
\* [ln.strip() for ln in lines if ln.strip()]
StripNonEmpty(lines) ==
    IF lines = <<>> THEN <<>>
    ELSE LET ln == strip(Head(lines))
         IN  (IF ln # "" THEN <<ln>> ELSE <<>>) \o StripNonEmpty(Tail(lines))

\* str.strip(chars)
StripChars(s, chars) ==
    LET a == RunEnd(s, 1, chars) + 1
        b == RunStart(s, Len(s), chars) - 1
    IN  IF a > b THEN "" ELSE SubSeq(s, a, b)

\* The number of whitespace-separated words: len(s.split())
WordCount(s) == Len(split(s))

-----------------------------------------------------------------------------
(* Regular expressions *)

(* A regular expression is matched the way Python's backtracking matcher does  *)
(* it: a position is the index of the next character to read, and the ends a   *)
(* piece can reach from a position are listed in the order the matcher tries   *)
(* them (a greedy quantifier tries its longest repetition first).  The first   *)
(* end of the whole pattern is the match.                                      *)

\* The ends reached by op from every end of ends, in order.
FlatMap(ends, op(_)) ==
    LET RECURSIVE go(_, _)
        go(lo, hi) ==
            IF lo > hi THEN <<>>
            ELSE IF lo = hi THEN op(ends[lo])
            ELSE go(lo, (lo + hi) \div 2) \o go((lo + hi) \div 2 + 1, hi)
    IN  go(1, Len(ends))

\* X? for a piece X of one character of class C.
OptCh(s, p, C) ==
    IF p <= Len(s) /\ Ch(s, p) \in C THEN <<p + 1, p>> ELSE <<p>>

RECURSIVE RepDown(_, _, _, _, _)
\* [C]{lo,hi}: the repetition counts k = hi, ..., lo that fit, longest first.
RepDown(s, p, C, lo, k) ==
    IF k < lo THEN <<>>
    ELSE (IF RunEnd(s, p, C) >= p + k - 1 THEN <<p + k>> ELSE <<>>)
             \o RepDown(s, p, C, lo, k - 1)

Rep(s, p, C, lo, hi) == RepDown(s, p, C, lo, hi)

\* The character c in lower case.
LowerOf(c) == IF c \in Upper THEN ToLowerCh[c] ELSE c

\* A literal, compared ignoring case when ic is TRUE (re.I).
Lit(s, p, w, ic) ==
    IF /\ p + Len(w) - 1 <= Len(s)
       /\ \A i \in 1..Len(w) :
              IF ic THEN LowerOf(Ch(s, p + i - 1)) = LowerOf(Ch(w, i))
              ELSE Ch(s, p + i - 1) = Ch(w, i)
    THEN <<p + Len(w)>> ELSE <<>>

\* [C]+ followed by nothing else of the pattern: only the longest repetition
\* is ever used.
Plus(s, p, C) == IF RunEnd(s, p, C) >= p THEN <<RunEnd(s, p, C) + 1>> ELSE <<>>

\* \b at position p: exactly one of the characters before and at p is a word
\* character.
WordBoundary(s, p) ==
    LET isw(q) == q >= 1 /\ q <= Len(s) /\ Ch(s, q) \in WordCh
    IN  isw(p - 1) # isw(p)

\* \s+ and \s*, longest first.
Spaces1(s, p) == Rep(s, p, Space, 1, RunEnd(s, p, Space) - p + 1)
Spaces0(s, p) == Rep(s, p, Space, 0, RunEnd(s, p, Space) - p + 1)

-----------------------------------------------------------------------------
(* 4.4 Header Extractor: what a line holds *)

\* [\s-]
SepCh == Space \cup {"-"}

\* [\w\.-]
EmailCh == WordCh \cup {".", "-"}

\* [\w\.-/]: in a character class \.-/ is the range from "." to "/", which holds
\* these two characters only.
UrlCh == WordCh \cup {".", "/"}

\* email_re (line 107) at position p: [\w\.-]+@[\w\.-]+\.\w+ .  The local part
\* is the whole run of its class (an "@" has to follow it); the domain part
\* gives characters back, longest first, until a "." and a word character
\* follow.
EmailAt(s, p) ==
    LET r1 == RunEnd(s, p, EmailCh)
        r2 == RunEnd(s, r1 + 2, EmailCh)
        RECURSIVE back(_)
        back(m) ==
            IF m < r1 + 2 THEN <<>>
            ELSE IF /\ m + 2 <= Len(s)
                    /\ Ch(s, m + 1) = "."
                    /\ Ch(s, m + 2) \in WordCh
                 THEN <<RunEnd(s, m + 2, WordCh) + 1>>
                 ELSE back(m - 1)
    IN  IF r1 >= p /\ r1 + 1 <= Len(s) /\ Ch(s, r1 + 1) = "@"
        THEN back(r2) ELSE <<>>

\* phone_re (line 108) without its group 1: (?:\(?\d{2,4}\)?[\s-]?)?\d{3,4}[\s-]?\d{3,4}
PhoneNumberAt(s, p) ==
    LET tail(q) ==
            FlatMap(Rep(s, q, Digit, 3, 4),
                    LAMBDA a : FlatMap(OptCh(s, a, SepCh),
                                       LAMBDA b : Rep(s, b, Digit, 3, 4)))
        area ==
            FlatMap(OptCh(s, p, {"("}),
                    LAMBDA a : FlatMap(Rep(s, a, Digit, 2, 4),
                        LAMBDA b : FlatMap(OptCh(s, b, {")"}),
                                           LAMBDA c : OptCh(s, c, SepCh))))
    IN  FlatMap(area \o <<p>>, tail)

\* Group 1 of phone_re, (\+\d{1,3}[\s-]?), at position p.
PhonePrefixAt(s, p) ==
    FlatMap(Lit(s, p, "+", FALSE),
            LAMBDA a : FlatMap(Rep(s, a, Digit, 1, 3), LAMBDA b : OptCh(s, b, SepCh)))

\* phone_re at position p: the end of the match and the text of group 1 ("" when
\* the group took no part, which is what findall reports for it).
PhoneAt(s, p) ==
    LET pre == PhonePrefixAt(s, p)
        with == {k \in 1..Len(pre) : PhoneNumberAt(s, pre[k]) # <<>>}
        bare == PhoneNumberAt(s, p)
    IN  IF with # {}
        THEN LET k == CHOOSE k \in with : \A k2 \in with : k <= k2
             IN  <<[end |-> Head(PhoneNumberAt(s, pre[k])), group1 |-> SubSeq(s, p, pre[k] - 1)]>>
        ELSE IF bare # <<>> THEN <<[end |-> Head(bare), group1 |-> ""]>>
        ELSE <<>>

\* url_re (line 109) at position p, its four alternatives in order, ignoring case.
UrlAt(s, p) ==
    LET NotSpaceComma == CharsOf(s) \ (Space \cup {","})
    IN  FlatMap(Lit(s, p, "http", TRUE),
                LAMBDA a : FlatMap(OptCh(s, a, {"s", "S"}),
                    LAMBDA b : FlatMap(Lit(s, b, "://", TRUE),
                                       LAMBDA c : Plus(s, c, UrlCh))))
        \o FlatMap(Lit(s, p, "www.", TRUE), LAMBDA a : Plus(s, a, UrlCh))
        \o FlatMap(Lit(s, p, "linkedin.com/", TRUE), LAMBDA a : Plus(s, a, NotSpaceComma))
        \o FlatMap(Lit(s, p, "github.com/", TRUE), LAMBDA a : Plus(s, a, NotSpaceComma))

RECURSIVE EmailFindall(_, _)
\* findall where email_re matches next, at position p as m says (nowhere when p
\* is 0): the text matched, and the scan goes on after the match.
EmailFound(s, p, m) ==
    IF p = 0 THEN <<>> ELSE <<SubSeq(s, p, Head(m) - 1)>> \o EmailFindall(s, Head(m))

\* The match of email_re at position p.
EmailMatch(s, p) == EmailFound(s, p, EmailAt(s, p))

\* email_re.findall(ln) from position i on: the matches from the left, without
\* overlap.
EmailFindall(s, i) == EmailMatch(s, LeastOr0({p \in i..Len(s) : EmailAt(s, p) # <<>>}))

RECURSIVE UrlFindall(_, _)
UrlFound(s, p, m) ==
    IF p = 0 THEN <<>> ELSE <<SubSeq(s, p, Head(m) - 1)>> \o UrlFindall(s, Head(m))

UrlMatch(s, p) == UrlFound(s, p, UrlAt(s, p))

\* url_re.findall(ln)
UrlFindall(s, i) == UrlMatch(s, LeastOr0({p \in i..Len(s) : UrlAt(s, p) # <<>>}))

RECURSIVE PhoneFindall(_, _)
PhoneFound(s, p, m) ==
    IF p = 0 THEN <<>> ELSE <<Head(m).group1>> \o PhoneFindall(s, Head(m).end)

PhoneMatch(s, p) == PhoneFound(s, p, PhoneAt(s, p))

\* phone_re.findall(ln): the pattern has one capturing group, so findall returns
\* the text of that group for every match, not the text matched.
PhoneFindall(s, i) == PhoneMatch(s, LeastOr0({p \in i..Len(s) : PhoneAt(s, p) # <<>>}))

RECURSIVE PhoneMatches(_, _)
PhoneMatched(s, p, m) ==
    IF p = 0 THEN <<>>
    ELSE <<SubSeq(s, p, Head(m).end - 1)>> \o PhoneMatches(s, Head(m).end)

PhoneMatchText(s, p) == PhoneMatched(s, p, PhoneAt(s, p))

\* The texts phone_re matches in ln (group 0 of every match).
PhoneMatches(s, i) ==
    PhoneMatchText(s, LeastOr0({p \in i..Len(s) : PhoneAt(s, p) # <<>>}))

\* email_re.search(ln), phone_re.search(ln), url_re.search(ln)
EmailSearch(s) == \E p \in 1..Len(s) : EmailAt(s, p) # <<>>
PhoneSearch(s) == \E p \in 1..Len(s) : PhoneAt(s, p) # <<>>
UrlSearch(s) == \E p \in 1..Len(s) : UrlAt(s, p) # <<>>

\* Line 152: the line holds an email, a phone number or a link.
HasContact(ln) == EmailSearch(ln) \/ PhoneSearch(ln) \/ UrlSearch(ln)

\* max(1, n // 2)
HalfAtLeastOne(n) == IF n \div 2 > 1 THEN n \div 2 ELSE 1

\* re.match(r"^[A-Za-z'-]+$", w) for a word w, which holds no whitespace.
AlphaWord(w) ==
    /\ w # ""
    /\ \A i \in 1..Len(w) : Ch(w, i) \in Lower \cup Upper \cup {"'", "-"}

NameStopWords == {"resume", "cv", "curriculum", "address", "phone", "email"}

_likely_name(line) ==
    LET words == split(line)
        low == lower(line)
        alpha_words == Count(words, AlphaWord)
        title_like == Count(words, LAMBDA w : Ch(w, 1) \in Upper)
    IN  /\ ~(line = "" \/ Len(words) > 4)
        /\ ~(\E x \in NameStopWords : Contains(low, x))
        /\ ~(alpha_words < HalfAtLeastOne(Len(words)))
        /\ title_like >= 1

-----------------------------------------------------------------------------
(* 4.5 Section Segmenter: heading recognition *)

\* SECTION_PATTERNS (lines 23-31), in the order the dict is iterated.
SectionKeys ==
    <<"experience", "education", "projects", "skills", "certifications", "awards", "summary">>

SECTION_PATTERNS ==
    [experience |-> <<"experience", "work experience", "professional experience",
                      "employment history">>,
     education |-> <<"education", "academic details", "academic background">>,
     projects |-> <<"projects", "academic projects", "personal projects">>,
     skills |-> <<"skills", "technical skills", "skills & tools", "technologies">>,
     certifications |-> <<"certifications", "certificates">>,
     awards |-> <<"awards", "achievements", "honors">>,
     summary |-> <<"summary", "profile", "about me">>]

RECURSIVE PatternList(_)
\* Every (section, pattern) in the order the two nested loops visit them.
PatternList(k) ==
    IF k > Len(SectionKeys) THEN <<>>
    ELSE LET sect == SectionKeys[k]
         IN  [i \in 1..Len(SECTION_PATTERNS[sect]) |->
                  [sect |-> sect, p |-> SECTION_PATTERNS[sect][i]]]
                 \o PatternList(k + 1)

Patterns == PatternList(1)

RECURSIVE ReplaceOutside(_, _, _, _)
\* re.sub(r"[^a-z0-9\s]", " ", s) on s[lo..hi]: every character outside keep
\* becomes a blank.
ReplaceOutside(s, keep, lo, hi) ==
    IF lo > hi THEN ""
    ELSE IF lo = hi THEN (IF Ch(s, lo) \in keep THEN Ch(s, lo) ELSE " ")
    ELSE ReplaceOutside(s, keep, lo, (lo + hi) \div 2)
         \o ReplaceOutside(s, keep, (lo + hi) \div 2 + 1, hi)

RECURSIVE CollapseSpaces(_, _, _)
\* re.sub(r"\s+", " ", s) on s[lo..hi]: the first character of a run of
\* whitespace becomes a blank and the others of the run go.
CollapseSpaces(s, lo, hi) ==
    IF lo > hi THEN ""
    ELSE IF lo = hi
    THEN (IF Ch(s, lo) \notin Space THEN Ch(s, lo)
          ELSE IF lo > 1 /\ Ch(s, lo - 1) \in Space THEN "" ELSE " ")
    ELSE CollapseSpaces(s, lo, (lo + hi) \div 2)
         \o CollapseSpaces(s, (lo + hi) \div 2 + 1, hi)

\* Lines 162-163.
Blanked(low) ==
    CollapseSpaces(ReplaceOutside(low, Lower \cup Digit \cup Space, 1, Len(low)), 1, Len(low))

_normalize_for_matching(s) == strip(Blanked(lower(s)))

\* The length of the longest common run of a[i..ahi] and b[j..bhi] from their
\* first characters: the first k at which the two texts differ or one ends.
CommonRun(a, b, i, ahi, j, bhi) ==
    IF i <= ahi /\ j <= bhi /\ Ch(a, i) = Ch(b, j)
    THEN CHOOSE k \in 1..(ahi - i + 1) :
             /\ \A m \in 1..(k - 1) : j + m <= bhi /\ Ch(a, i + m) = Ch(b, j + m)
             /\ i + k > ahi \/ j + k > bhi \/ Ch(a, i + k) # Ch(b, j + k)
    ELSE 0

\* SequenceMatcher.find_longest_match on a[alo..ahi] and b[blo..bhi] (no junk;
\* the texts are far shorter than the 200 elements autojunk needs): a longest
\* common block, the one that starts earliest in a and, of these, earliest in b.
find_longest_match(a, b, alo, ahi, blo, bhi) ==
    LET size == [ij \in (alo..ahi) \X (blo..bhi) |->
                     CommonRun(a, b, ij[1], ahi, ij[2], bhi)]
        best == CHOOSE ij \in DOMAIN size :
                    \A kl \in DOMAIN size :
                        \/ size[ij] > size[kl]
                        \/ /\ size[ij] = size[kl]
                           /\ \/ ij[1] < kl[1]
                              \/ ij[1] = kl[1] /\ ij[2] <= kl[2]
    IN  IF alo > ahi \/ blo > bhi THEN [i |-> alo, j |-> blo, size |-> 0]
        ELSE [i |-> best[1], j |-> best[2], size |-> size[best]]

RECURSIVE MatchedChars(_, _, _, _, _, _)
\* The longest block m, then the same to its left and to its right.
MatchedAround(a, b, alo, ahi, blo, bhi, m) ==
    IF m.size = 0 THEN 0
    ELSE m.size
         + MatchedChars(a, b, alo, m.i - 1, blo, m.j - 1)
         + MatchedChars(a, b, m.i + m.size, ahi, m.j + m.size, bhi)

\* The sum of the sizes of SequenceMatcher.get_matching_blocks().
MatchedChars(a, b, alo, ahi, blo, bhi) ==
    MatchedAround(a, b, alo, ahi, blo, bhi, find_longest_match(a, b, alo, ahi, blo, bhi))

\* SequenceMatcher(None, a, b).ratio() as the fraction num / den.
Ratio(a, b) ==
    IF Len(a) + Len(b) = 0 THEN [num |-> 1, den |-> 1]
    ELSE [num |-> 2 * MatchedChars(a, b, 1, Len(a), 1, Len(b)), den |-> Len(a) + Len(b)]

\* r > 0.78, r > 0.5, r1 > r2
Above78(r) == 100 * r.num > 78 * r.den
AboveHalf(r) == 2 * r.num > r.den
RatioGreater(r1, r2) == r1.num * r2.den > r2.num * r1.den

\* Lines 192-194: the score of every pattern, with the position k of the pattern
\* in the order of the loops.
PatternScores(ln) ==
    {[k |-> k, sect |-> Patterns[k].sect, score |-> Ratio(ln, Patterns[k].p)] :
        k \in 1..Len(Patterns)}

\* Lines 195-196 replace best by a pattern e only when e scores higher: e stays
\* best against a pattern o when it scores higher than o, or as high and comes
\* first.
BetterPattern(e, o) ==
    \/ RatioGreater(e.score, o.score)
    \/ ~RatioGreater(o.score, e.score) /\ e.k <= o.k

\* Lines 191-196: best after the loops, from (None, 0.0); no pattern replaces it
\* when every score is 0.
BestOf(scores, best) ==
    IF \A e \in scores : ~RatioGreater(e.score, best.score) THEN best
    ELSE LET e == CHOOSE e \in scores : \A o \in scores : BetterPattern(e, o)
         IN  [sect |-> e.sect, score |-> e.score]

BestPattern(ln, best) == BestOf(PatternScores(ln), best)

\* The heading test with the test of line 179 before the pass of lines 171-174:
\* a line of more than 8 words is no heading.
SectionChoiceShortOnly(line, ln, exact, fuzzy, best) ==
    IF Len(split(ln)) > 8 THEN NoneV
    ELSE IF exact # <<>> THEN exact[1].sect
    ELSE IF fuzzy # <<>> THEN fuzzy[1].sect
    ELSE IF /\ strip(line) = upper(strip(line))
            /\ 1 <= Len(split(line)) /\ Len(split(line)) <= 6
            /\ best.sect # NoneV /\ AboveHalf(best.score)
         THEN best.sect
    ELSE NoneV

\* Lines 172-200 with the results of the three passes over the patterns: the
\* first pattern held by ln, the first one close to ln, and the closest one.
SectionChoice(line, ln, exact, fuzzy, best) ==
    IF exact # <<>> THEN exact[1].sect
    ELSE IF Len(split(ln)) > 8 THEN NoneV
    ELSE IF fuzzy # <<>> THEN fuzzy[1].sect
    ELSE IF /\ strip(line) = upper(strip(line))
            /\ 1 <= Len(split(line)) /\ Len(split(line)) <= 6
            /\ best.sect # NoneV /\ AboveHalf(best.score)
         THEN best.sect
    ELSE NoneV

\* Lines 172-200 for ln, the normalized line.
SectionOfNormalized(line, ln) ==
    SectionChoice(line, ln,
                  FirstWhere(Patterns, LAMBDA e : Contains(ln, e.p)),
                  FirstWhere(Patterns, LAMBDA e : Above78(Ratio(ln, e.p))),
                  BestPattern(ln, [sect |-> NoneV, score |-> [num |-> 0, den |-> 1]]))

\* The matched section, NoneV for None.
_is_section_header(line) == SectionOfNormalized(line, _normalize_for_matching(line))

-----------------------------------------------------------------------------
(* 4.6 Section Entry Parsers: header-like lines and dates *)

\* The month names of DATE_RE (line 208), in the order of the alternation.
MonthNames ==
    <<"Jan", "Feb", "Mar", "Apr", "May", "Jun", "Jul", "Aug", "Sep", "Sept", "Oct", "Nov",
      "Dec", "January", "February", "March", "April", "May", "June", "July", "August",
      "September", "October", "November", "December">>

\* (?:Jan|...|December)\.?\s+\d{4}
MonthYearAt(s, p) ==
    FlatMap(FlatMap(MonthNames, LAMBDA m : Lit(s, p, m, TRUE)),
            LAMBDA a : FlatMap(OptCh(s, a, {"."}),
                LAMBDA b : FlatMap(Spaces1(s, b), LAMBDA c : Rep(s, c, Digit, 4, 4))))

\* [-to]{1,3} under re.I.  The class of the source also holds the en dash and
\* the em dash, which the texts of the model do not use.
DashCh == {"-", "t", "o", "T", "O"}

\* DATE_RE at position p.
DateAt(s, p) ==
    LET first ==
            MonthYearAt(s, p)
            \o (IF WordBoundary(s, p)
                THEN FlatMap(Rep(s, p, Digit, 4, 4),
                             LAMBDA a : IF WordBoundary(s, a) THEN <<a>> ELSE <<>>)
                ELSE <<>>)
        second(q) ==
            Lit(s, q, "Present", TRUE) \o Lit(s, q, "Now", TRUE) \o Lit(s, q, "Present.", TRUE)
            \o (IF WordBoundary(s, q) THEN MonthYearAt(s, q) ELSE <<>>)
            \o Rep(s, q, Digit, 4, 4)
    IN  FlatMap(first,
            LAMBDA a : FlatMap(Spaces0(s, a),
                LAMBDA b : FlatMap(Rep(s, b, DashCh, 1, 3),
                    LAMBDA c : FlatMap(Spaces0(s, c), second))))

\* The match of DATE_RE at position p, which is m; none when p is 0.
DateFound(s, p, m) ==
    IF p = 0 THEN <<>> ELSE <<[start |-> p, end |-> Head(m)]>>

DateMatch(s, p) == DateFound(s, p, DateAt(s, p))

\* The first match of DATE_RE at position i or later.
DateSearchFrom(s, i) == DateMatch(s, LeastOr0({p \in i..Len(s) : DateAt(s, p) # <<>>}))

\* DATE_RE.search(line): the first position with a match and the position
\* after the match, as a sequence of at most one.
DateSearch(s) == DateSearchFrom(s, 1)

_is_header_like(line) ==
    LET words == split(line)
    IN  /\ line # ""
        /\ \/ DateSearch(line) # <<>>
           \/ Contains(line, "@")
           \/ Contains(lower(line), " at ")
           \/ /\ 1 <= Len(words) /\ Len(words) <= 8
              /\ \/ strip(line) = upper(strip(line))
                 \/ \E k \in 1..Len(words) : Ch(words[k], 1) \in Upper

\* The length of the match of [-]|\bto\b at position i, 0 when there is none.
DashToLen(s, i) ==
    IF Ch(s, i) = "-" THEN 1
    ELSE IF /\ WordBoundary(s, i)
            /\ Lit(s, i, "to", TRUE) # <<>>
            /\ WordBoundary(s, i + 2)
         THEN 2
    ELSE 0

RECURSIVE SplitDashTo(_, _)
\* The piece of s from position a up to the match at position j, and the pieces
\* after it; the rest of s when j is 0.
SplitDashToAt(s, a, j) ==
    IF j = 0 THEN <<SubSeq(s, a, Len(s))>>
    ELSE <<SubSeq(s, a, j - 1)>> \o SplitDashTo(s, j + DashToLen(s, j))

\* re.split(r"[-]|\bto\b", span, flags=re.I), from position a on.
SplitDashTo(s, a) ==
    SplitDashToAt(s, a, LeastOr0({j \in a..Len(s) : DashToLen(s, j) > 0}))

RECURSIVE DateParts(_)
\* [p.strip().strip(".") for p in parts if p.strip()]
DateParts(parts) ==
    IF parts = <<>> THEN <<>>
    ELSE (IF strip(Head(parts)) # "" THEN <<StripChars(strip(Head(parts)), {"."})>> ELSE <<>>)
             \o DateParts(Tail(parts))

\* Lines 233-236.
DatesOfParts(parts) ==
    IF Len(parts) = 1 THEN <<parts[1], NoneV>> ELSE <<parts[1], parts[2]>>

\* Lines 228-236 for the match m.
DatesOfMatch(line, m) ==
    IF m = <<>> THEN <<NoneV, NoneV>>
    ELSE DatesOfParts(DateParts(SplitDashTo(SubSeq(line, m[1].start, m[1].end - 1), 1)))

\* (start, end), NoneV for None.
_extract_dates_from_line(line) == DatesOfMatch(line, DateSearch(line))

-----------------------------------------------------------------------------
(* The lines of the documents *)

\* The lines given to the Repetition Filter: one of 2 words, one of 6 words (the
\* longest a candidate is) and one of 7 words.
FilterPool == {"Page 1", "a b c d e f", "a b c d e f g"}

\* The lines given to the Header Extractor: a name, a line with an email, a line
\* with a phone number, a line with a link, a line of three tokens of which one
\* is alphabetic, and a line of text.
HeaderPool == {"John Doe", "Email: john@x.com", "+1 555-123-4567", "github.com/jd",
               "Rev 2 3", "built a thing"}

\* The lines given to the Section Segmenter: a canonical label, a heading that
\* holds a label, a misspelt heading and two lines of text.
SegPool == {"EDUCATION", "Work Experience:", "EXPERIANCE", "BSc Physics", "built a thing"}

\* The lines given to the experience parser: a header "<title> at <company>", a
\* range of dates, bullets that start with a capital and bullets that do not, a
\* line of text.
ExpPool == {"Senior Engineer at Acme Corp", "Jan 2020 - Present", "- Built a thing",
            "- Shipped another thing", "- fixed bugs", "built a thing"}

\* The lines of the documents given to parse_resume_text: a name, a canonical
\* label and two lines of a section.
DocPool == {"John Doe", "EDUCATION", "BSc Physics", "MIT, 2020"}

\* The lines given to the Header Extractor for its contact lists: a line with
\* an email, a line with that email twice, a line with two emails, a line with a
\* link, a line with two links and a name.
ContactPool == {"a@b.co", "a@b.co a@b.co", "c@d.co a@b.co", "github.com/jd",
                "www.x.io github.com/jd", "John Doe"}

\* The lines given to _is_section_header: a canonical label, a heading with a
\* colon, a line with labels of two keys (projects is before skills in the
\* table), a line of 10 words that holds a label, and two lines with no label.
HeadingPool == {"EDUCATION", "Work Experience:", "Skills and Projects",
                "I have five years of work experience in many fields",
                "EXPERIANCE", "built a thing"}

\* The headers given to the experience parser for the split of title and
\* company: one with "@", one with " at ", one with two commas, one with one
\* comma, one with none of these, and a bullet.
TitlePool == {"Dev @ Foo Inc", "Senior Engineer at Acme Corp", "Engineer, Acme, Paris",
              "Lead, Bar Ltd", "ENGINEER", "- fixed bugs"}

\* The lines given to parse_experience_section when it is called on any list of
\* strings: a line that holds " at " only with the blanks at its ends, a
\* header, a bullet, an empty line and a line of text with blanks at its ends.
LoopPool == {" at ", "Engineer at Acme", "- Built a thing", "", "  built a thing "}

\* The lines of an education section: a header with two commas, a header with
\* " - ", a header whose only comma is its last character, a short line that is
\* not header-like, a line of 13 tokens that is not header-like, and an empty
\* line.
EduPool == {"BSc Physics, MIT, 2020", "MSc - Oxford", "PhD,", "cgpa 3.9",
            "graduated with honors and a minor in maths after four long busy years",
            ""}

KnownLines ==
    FilterPool \cup HeaderPool \cup SegPool \cup ExpPool \cup DocPool \cup ContactPool
        \cup HeadingPool \cup TitlePool \cup LoopPool \cup {strip(l) : l \in LoopPool}
        \cup EduPool

\* What the functions above return for one line.
LineFacts(ln) ==
    [emails |-> EmailFindall(ln, 1),
     phone_groups |-> PhoneFindall(ln, 1),
     links |-> UrlFindall(ln, 1),
     likely_name |-> _likely_name(ln),
     contact_line |-> HasContact(ln),
     section |-> _is_section_header(ln),
     header_like |-> _is_header_like(ln)]

\* LineFacts of the lines above, computed once.
KnownFacts == {<<ln, LineFacts(ln)>> : ln \in KnownLines}

\* LineFacts(ln), looked up when ln is one of the lines above.
Facts(ln) ==
    IF ln \in KnownLines THEN (CHOOSE e \in KnownFacts : e[1] = ln)[2] ELSE LineFacts(ln)

\* HasContact(ln), _is_section_header(ln), _is_header_like(ln)
ContactLine(ln) == Facts(ln).contact_line
SectionOf(ln) == Facts(ln).section
HeaderLike(ln) == Facts(ln).header_like

RECURSIVE LineSeqs(_, _)
\* The sequences of at most n lines of pool.
LineSeqs(pool, n) ==
    IF n = 0 THEN {<<>>}
    ELSE LET shorter == LineSeqs(pool, n - 1)
         IN  shorter \cup {Append(ls, l) : ls \in shorter, l \in pool}

-----------------------------------------------------------------------------
(* 4.1 Text Normalizer *)

\* The end of the match of (\w+)-\s*\n\s*(\w+) that starts at position i, 0 when
\* there is none.  \w+ is greedy and is followed by a hyphen, which is no word
\* character, so group 1 is the maximal word run from i; \s*\n\s* must consume
\* the whole whitespace run after the hyphen (a word character has to follow),
\* and that run must hold a line feed; group 2 is the maximal word run there.
HyphMatchEnd(s, i) ==
    LET w1 == RunEnd(s, i, WordCh)
        ws == RunEnd(s, w1 + 2, Space)
        w2 == RunEnd(s, ws + 1, WordCh)
    IN  IF /\ w1 >= i
           /\ w1 + 1 <= Len(s) /\ Ch(s, w1 + 1) = "-"
           /\ \E k \in (w1 + 2)..ws : Ch(s, k) = "\n"
           /\ w2 >= ws + 1
        THEN w2 ELSE 0

RECURSIVE MergeFrom(_, _)
\* The text of s from position i up to the match at position j, which ends at e,
\* then group 1 and group 2 of the match and what follows; the rest of s when
\* j is 0.
MergeAt(s, i, j, e) ==
    IF j = 0 THEN SubSeq(s, i, Len(s))
    ELSE SubSeq(s, i, j - 1)
         \o SubSeq(s, j, RunEnd(s, j, WordCh)) \o SubSeq(s, RunStart(s, e, WordCh), e)
         \o MergeFrom(s, e + 1)

MergeMatch(s, i, j) == MergeAt(s, i, j, HyphMatchEnd(s, j))

\* re.sub scans from the left; text matched is replaced by group 1 and group 2
\* and the scan goes on after the match, so a word that ended one match never
\* starts the next one.
MergeFrom(s, i) ==
    MergeMatch(s, i, LeastOr0({j \in i..Len(s) : HyphMatchEnd(s, j) > 0}))

_merge_hyphenated_words(text) == MergeFrom(text, 1)

CrToLf == [c \in {"\r"} |-> "\n"]

RECURSIVE CollapseFrom(_, _)
\* The text of s from position i up to the run of line feeds at position j, then
\* two line feeds and what follows the run; the rest of s when j is 0.
CollapseAt(s, i, j) ==
    IF j = 0 THEN SubSeq(s, i, Len(s))
    ELSE SubSeq(s, i, j - 1) \o "\n\n" \o CollapseFrom(s, RunEnd(s, j, {"\n"}) + 1)

\* re.sub(r"\n{3,}", "\n\n", text), from position i on.
CollapseFrom(s, i) ==
    CollapseAt(s, i, LeastOr0({j \in i..Len(s) : RunEnd(s, j, {"\n"}) >= j + 2}))

_normalize_newlines(text) == CollapseFrom(MapStr(CrToLf, text, 1, Len(text)), 1)

\* The two calls every caller makes in this order (lines 60-61 and 531-532).
Normalize(text) == _normalize_newlines(_merge_hyphenated_words(text))

-----------------------------------------------------------------------------
(* 4.2 Block Segmenter *)

RECURSIVE BlocksOf(_)
\* Lines 64-68, over blocks_raw.
BlocksOf(blocks_raw) ==
    IF blocks_raw = <<>> THEN <<>>
    ELSE LET lines == StripNonEmpty(splitlines(Head(blocks_raw)))
         IN  (IF lines # <<>> THEN <<lines>> ELSE <<>>) \o BlocksOf(Tail(blocks_raw))

\* The text preprocess_text_into_blocks segments: its own normalization of its
\* argument (lines 60-61).
preprocess_t(raw) == Normalize(raw)

\* The blocks of preprocess_text_into_blocks (lines 63-68) for its local t.
preprocess_blocks(tt) ==
    BlocksOf(SelectSeq(SplitOn(tt, "\n\n", 1), LAMBDA b : strip(b) # ""))

-----------------------------------------------------------------------------
(* 4.3 Repetition Filter *)

\* Lines 490-494: the set seen of one block.
SeenOf(block) ==
    {strip(block[j]) : j \in {j \in 1..Len(block) : WordCount(strip(block[j])) <= 6}}

\* Lines 488-496: counter[k], the number of blocks whose seen holds k.
RepeatCounter(bs, k) == Cardinality({b \in 1..Len(bs) : k \in SeenOf(bs[b])})

\* Line 498.
RepeatedKeys(bs) ==
    {k \in UNION {SeenOf(bs[b]) : b \in 1..Len(bs)} : RepeatCounter(bs, k) > 1}

\* Lines 505-513 without the skip of lines 510-511: every line stays.
CleanBlockKeepingAll(block, repeated, removed) ==
    [new_block |-> block, removed |-> removed]

RECURSIVE CleanBlock(_, _, _)
\* Lines 505-513 for one block: new_block and the set removed after the block.
CleanBlock(block, repeated, removed) ==
    IF block = <<>> THEN [new_block |-> <<>>, removed |-> removed]
    ELSE LET ln == Head(block)
             key == strip(ln)
             skip == key \in repeated /\ key \in removed
             rest == CleanBlock(Tail(block), repeated,
                                IF key \in repeated THEN removed \cup {key} ELSE removed)
         IN  [new_block |-> (IF skip THEN <<>> ELSE <<ln>>) \o rest.new_block,
              removed |-> rest.removed]

RECURSIVE CleanBlocksKeepingEmpty(_, _, _)
\* The loop of lines 504-515 without the test of line 514: a block of which
\* every line is skipped stays, empty.
CleanBlocksKeepingEmpty(bs, repeated, removed) ==
    IF bs = <<>> THEN <<>>
    ELSE LET r == CleanBlock(Head(bs), repeated, removed)
         IN  <<r.new_block>> \o CleanBlocksKeepingEmpty(Tail(bs), repeated, r.removed)

RECURSIVE CleanBlocks(_, _, _)
\* Lines 502-515.
CleanBlocks(bs, repeated, removed) ==
    IF bs = <<>> THEN <<>>
    ELSE LET r == CleanBlock(Head(bs), repeated, removed)
         IN  (IF r.new_block # <<>> THEN <<r.new_block>> ELSE <<>>)
                 \o CleanBlocks(Tail(bs), repeated, r.removed)

\* The filter with a counter that counts every occurrence of a short line and
\* not the blocks holding it (no set seen).
remove_repeated_counting_lines(bs) ==
    LET flat == Flatten(bs)
        repeated == {k \in {strip(flat[i]) : i \in 1..Len(flat)} :
                        /\ WordCount(k) <= 6
                        /\ Cardinality({i \in 1..Len(flat) : strip(flat[i]) = k}) > 1}
    IN  IF repeated = {} THEN bs ELSE CleanBlocks(bs, repeated, {})

remove_repeated_header_footer(bs) ==
    LET repeated == RepeatedKeys(bs)
    IN  IF repeated = {} THEN bs ELSE CleanBlocks(bs, repeated, {})

-----------------------------------------------------------------------------
(* 4.4 Header Extractor *)

\* The lists of the contact without the test of lines 117 and 133: every match
\* is appended.
AppendAll(acc, found) == acc \o found

RECURSIVE AppendNew(_, _)
\* for m in found: if m not in acc: acc.append(m)
AppendNew(acc, found) ==
    IF found = <<>> THEN acc
    ELSE AppendNew(IF Head(found) \in Range(acc) THEN acc ELSE Append(acc, Head(found)),
                   Tail(found))

\* len(re.sub(r"\D", "", candidate))
DigitCount(candidate) == Cardinality({i \in 1..Len(candidate) : Ch(candidate, i) \in Digit})

RECURSIVE AppendPhones(_, _)
\* Lines 121-129 for the list found that phone_re.findall returned: its
\* elements are strings, not tuples, since the pattern has one group.
AppendPhones(phones, found) ==
    IF found = <<>> THEN phones
    ELSE LET candidate == strip(Head(found))
         IN  AppendPhones(IF /\ candidate # ""
                             /\ candidate \notin Range(phones)
                             /\ DigitCount(candidate) >= 7
                          THEN Append(phones, candidate) ELSE phones,
                          Tail(found))

\* Lines 115-139 for the line ln at index i (from 1), which holds what f says;
\* acc holds the lists and the name found so far.
ScanLine(acc, i, ln, f) ==
    [emails |-> AppendNew(acc.emails, f.emails),
     phones |-> AppendPhones(acc.phones, f.phone_groups),
     links |-> AppendNew(acc.links, f.links),
     name |-> IF acc.name = NoneV /\ f.likely_name THEN strip(ln) ELSE acc.name,
     name_index |-> IF acc.name = NoneV /\ f.likely_name THEN i - 1 ELSE acc.name_index]

RECURSIVE ScanHeader(_, _, _)
\* Lines 114-139: the loop over header_block from index i (from 1) on.
ScanHeader(header_block, i, acc) ==
    IF i > Len(header_block) THEN acc
    ELSE ScanHeader(header_block, i + 1,
                    ScanLine(acc, i, header_block[i], Facts(header_block[i])))

\* The header lines without the line of the name: range(0, name_index).
HeaderLinesSetExclusive(header_block, idx) ==
    (IF idx # NoIndex THEN {header_block[j + 1] : j \in 0..(idx - 1)} ELSE {})
        \cup {ln \in Range(header_block) : ContactLine(ln)}

\* Lines 145-153: header_lines_set; idx is name_index, an index from 0.
HeaderLinesSet(header_block, idx) ==
    (IF idx # NoIndex THEN {header_block[j + 1] : j \in 0..idx} ELSE {})
        \cup {ln \in Range(header_block) : ContactLine(ln)}

\* Lines 141-157: the result, for what the scan found.
HeaderResult(lines, header_block, scan) ==
    [name |-> scan.name,
     name_index |-> scan.name_index,
     contact |-> [emails |-> scan.emails, phones |-> scan.phones, links |-> scan.links],
     remaining |-> SelectSeq(lines,
                       LAMBDA ln : ln \notin HeaderLinesSet(header_block, scan.name_index))]

extract_header_info(lines, n) ==
    HeaderResult(lines, Take(lines, n),
                 ScanHeader(Take(lines, n), 1,
                            [emails |-> <<>>, phones |-> <<>>, links |-> <<>>,
                             name |-> NoneV, name_index |-> NoIndex]))

-----------------------------------------------------------------------------
(* 4.5 Section Segmenter *)

\* An empty dict.
EmptyDict == [k \in {} |-> <<>>]

\* The segmenter with a heading that makes its key but leaves the pointer where
\* it is.
SegLineKeepsPointer(st, ln) ==
    LET matched == SectionOf(ln)
    IN  IF matched # NoneV
        THEN [current_section |-> st.current_section,
              sections |-> IF matched \in DOMAIN st.sections THEN st.sections
                           ELSE st.sections @@ (matched :> <<>>)]
        ELSE [current_section |-> st.current_section,
              sections |-> [st.sections EXCEPT ![st.current_section] = Append(@, ln)]]

\* The segmenter without the test of line 470: every heading empties the list of
\* its key.
SegLineResets(st, ln) ==
    LET matched == SectionOf(ln)
    IN  IF matched # NoneV
        THEN [current_section |-> matched,
              sections |-> [k \in DOMAIN st.sections \cup {matched} |->
                                IF k = matched THEN <<>> ELSE st.sections[k]]]
        ELSE [current_section |-> st.current_section,
              sections |-> [st.sections EXCEPT ![st.current_section] = Append(@, ln)]]

\* Lines 469-475 for the line ln, where _is_section_header returned matched; st
\* holds sections and current_section.
SegMatched(st, ln, matched, cs) ==
    IF matched # NoneV
    THEN [current_section |-> matched,
          sections |-> IF matched \in DOMAIN st.sections THEN st.sections
                       ELSE st.sections @@ (matched :> <<>>)]
    ELSE [current_section |-> cs,
          sections |-> IF cs \in DOMAIN st.sections
                       THEN [st.sections EXCEPT ![cs] = Append(@, ln)]
                       ELSE st.sections @@ (cs :> <<ln>>)]

\* Lines 467-475: one pass of the loop, for the line ln.
SegLine(st, ln) == SegMatched(st, ln, SectionOf(ln), st.current_section)

\* Line 478: {k: v for k, v in sections.items() if v}
DropEmpty(d) == [k \in {k \in DOMAIN d : d[k] # <<>>} |-> d[k]]

-----------------------------------------------------------------------------
(* 4.6 Section Entry Parsers: experience *)

\* bullet_marks (line 250).  The tuple of the source also holds five glyphs
\* outside ASCII, which the texts of the model do not use.
BulletMarks == {"-", "*"}

\* The last position of the match of \s+at\s+ (re.I) at position j, 0 when
\* there is none: \s+ takes a whole run of whitespace, since "at" has to follow
\* the first run and the second is greedy.
AtWordEnd(s, j) ==
    LET r == RunEnd(s, j, Space)
        r2 == RunEnd(s, r + 3, Space)
    IN  IF r >= j /\ Lit(s, r + 1, "at", TRUE) # <<>> /\ r2 >= r + 3 THEN r2 ELSE 0

RECURSIVE SplitAtWord(_, _)
\* The piece of s from position a up to the match at position j, and the pieces
\* after it; the rest of s when j is 0.
SplitAtWordAt(s, a, j) ==
    IF j = 0 THEN <<SubSeq(s, a, Len(s))>>
    ELSE <<SubSeq(s, a, j - 1)>> \o SplitAtWord(s, AtWordEnd(s, j) + 1)

\* re.split(r"\s+at\s+", header, flags=re.I), from position a on.
SplitAtWord(s, a) ==
    SplitAtWordAt(s, a, LeastOr0({j \in a..Len(s) : AtWordEnd(s, j) > 0}))

\* Lines 287-309: title and company of an assembled header, NoneV for None.
SplitTitle(header) ==
    LET at == Head(SplitOn(header, "@", 1))
        byword == SplitAtWord(header, 1)
        bycomma == StripNonEmpty(SplitOn(header, ",", 1))
    IN  IF Contains(header, "@")
        THEN [title |-> strip(at),
              company |-> strip(SubSeq(header, Len(at) + 2, Len(header)))]
        ELSE IF Contains(lower(header), " at ")
        THEN (IF Len(byword) >= 2
              THEN [title |-> strip(byword[1]), company |-> strip(byword[2])]
              ELSE [title |-> NoneV, company |-> NoneV])
        ELSE IF Len(bycomma) >= 2
        THEN [title |-> bycomma[1], company |-> bycomma[2]]
        ELSE [title |-> header, company |-> NoneV]

\* l.lstrip(''.join(bullet_marks)).strip()
Unglyph(l) == strip(SubSeq(l, RunEnd(l, 1, BulletMarks) + 1, Len(l)))

RECURSIVE HeaderLines(_, _, _)
\* Lines 258-264: the header and the index after the lines appended to it.
HeaderLines(lines, i, header) ==
    IF /\ i <= Len(lines)
       /\ ~(strip(lines[i]) # "" /\ Ch(strip(lines[i]), 1) \in BulletMarks)
       /\ ~HeaderLike(lines[i])
       /\ Len(split(lines[i])) <= 8
    THEN HeaderLines(lines, i + 1, header \o " | " \o strip(lines[i]))
    ELSE [header |-> header, i |-> i]

RECURSIVE BulletLines(_, _, _)
\* Lines 267-282: the bullets and the index after them.
BulletLines(lines, i, bullets) ==
    IF i <= Len(lines) /\ ~HeaderLike(lines[i])
    THEN LET l == strip(lines[i])
         IN  BulletLines(lines, i + 1,
                 IF l = "" THEN bullets
                 ELSE IF Ch(l, 1) \in BulletMarks THEN Append(bullets, Unglyph(l))
                 ELSE Append(bullets, l))
    ELSE [bullets |-> bullets, i |-> i]

\* Lines 324-327 with the inner loop left after its first line.
BufferLinesOne(lines, i, buffer_lines) ==
    [buffer_lines |-> Append(buffer_lines, strip(lines[i])), i |-> i + 1]

RECURSIVE BufferLines(_, _, _)
\* Lines 324-327.
BufferLines(lines, i, buffer_lines) ==
    IF i <= Len(lines) /\ ~HeaderLike(lines[i])
    THEN BufferLines(lines, i + 1, Append(buffer_lines, strip(lines[i])))
    ELSE [buffer_lines |-> buffer_lines, i |-> i]

\* Lines 285-319: the entry of an assembled header with the dates and the title
\* and company found in it.
EntryOf(header, bullets, dates, tc) ==
    [title |-> tc.title, company |-> tc.company, location |-> NoneV,
     start_date |-> dates[1], end_date |-> dates[2],
     bullets |-> bullets, raw_header |-> header]

ExperienceEntry(header, bullets) ==
    EntryOf(header, bullets, _extract_dates_from_line(header), SplitTitle(header))

RECURSIVE ExperienceLoop(_, _, _)
\* Lines 284-320 with the line after the bullets passed over.
AfterBulletsSkipping(lines, entries, header, b) ==
    ExperienceLoop(lines, b.i + 1, Append(entries, ExperienceEntry(header, b.bullets)))

\* Lines 284-320: the bullets b of the header are read and its entry is appended.
AfterBullets(lines, entries, header, b) ==
    ExperienceLoop(lines, b.i, Append(entries, ExperienceEntry(header, b.bullets)))

\* Lines 266-282: the header h is assembled and its bullets are gathered.
AfterHeader(lines, entries, h) ==
    AfterBullets(lines, entries, h.header, BulletLines(lines, h.i, <<>>))

\* Lines 328-337: the lines b before the next header are read.
AfterBuffer(lines, entries, b) ==
    ExperienceLoop(lines, b.i,
        IF b.buffer_lines # <<>>
        THEN Append(entries,
                 [title |-> NoneV, company |-> NoneV, location |-> NoneV,
                  start_date |-> NoneV, end_date |-> NoneV,
                  bullets |-> b.buffer_lines, raw_header |-> NoneV])
        ELSE entries)

\* Lines 252-337: the outer loop from index i (from 1) on.  The lines are
\* trimmed, so every pass consumes at least one line.
ExperienceLoop(lines, i, entries) ==
    IF i > Len(lines) THEN entries
    ELSE IF HeaderLike(strip(lines[i]))
    THEN AfterHeader(lines, entries, HeaderLines(lines, i + 1, strip(lines[i])))
    ELSE AfterBuffer(lines, entries, BufferLines(lines, i, <<>>))

parse_experience_section(lines) == ExperienceLoop(lines, 1, <<>>)

\* Lines 284-320 in one pass of the outer loop: the entry of the header is
\* appended; i is the index after its bullets.
PassAfterBullets(entries, header, b) ==
    [i |-> b.i, entries |-> Append(entries, ExperienceEntry(header, b.bullets))]

\* Lines 266-320 in one pass of the outer loop.
PassAfterHeader(lines, entries, h) ==
    PassAfterBullets(entries, h.header, BulletLines(lines, h.i, <<>>))

\* Lines 328-337 in one pass of the outer loop.
PassAfterBuffer(entries, b) ==
    [i |-> b.i,
     entries |-> IF b.buffer_lines # <<>>
                 THEN Append(entries,
                          [title |-> NoneV, company |-> NoneV, location |-> NoneV,
                           start_date |-> NoneV, end_date |-> NoneV,
                           bullets |-> b.buffer_lines, raw_header |-> NoneV])
                 ELSE entries]

\* Lines 253-337: one pass of the outer loop at index i (from 1), for any
\* lines, trimmed or not: the index after the pass (from 1) and the entries.
\* Line 254 tests the trimmed line and line 325 the line as it is.
ExperiencePass(lines, i, entries) ==
    IF HeaderLike(strip(lines[i]))
    THEN PassAfterHeader(lines, entries, HeaderLines(lines, i + 1, strip(lines[i])))
    ELSE PassAfterBuffer(entries, BufferLines(lines, i, <<>>))

-----------------------------------------------------------------------------
(* 4.6 Section Entry Parsers: skills *)

RECURSIVE Join(_, _)
\* sep.join(lines)
Join(lines, sep) ==
    IF lines = <<>> THEN ""
    ELSE IF Len(lines) = 1 THEN lines[1]
    ELSE lines[1] \o sep \o Join(Tail(lines), sep)

\* The separators of line 436: [,|;\n]
SkillSeparators == {",", "|", ";", "\n"}

RECURSIVE SplitClass(_, _, _)
\* The piece of s from position a up to the character of C at position j, and
\* the pieces after it; the rest of s when j is 0.
SplitClassAt(s, C, a, j) ==
    IF j = 0 THEN <<SubSeq(s, a, Len(s))>>
    ELSE <<SubSeq(s, a, j - 1)>> \o SplitClass(s, C, j + 1)

\* re.split of s, from position a on, on a pattern that matches one character
\* of the class C.
SplitClass(s, C, a) ==
    SplitClassAt(s, C, a, LeastOr0({j \in a..Len(s) : Ch(s, j) \in C}))

RECURSIVE TitleStr(_, _, _)
\* str.title() on s[lo..hi]: a letter that follows a letter is lowercased, every
\* other letter is uppercased, and every other character is left as it is.
TitleStr(s, lo, hi) ==
    IF lo > hi THEN ""
    ELSE IF lo = hi
    THEN (IF lo > 1 /\ Ch(s, lo - 1) \in Lower \cup Upper
          THEN lower(Ch(s, lo)) ELSE upper(Ch(s, lo)))
    ELSE TitleStr(s, lo, (lo + hi) \div 2) \o TitleStr(s, (lo + hi) \div 2 + 1, hi)

title(s) == TitleStr(s, 1, Len(s))

\* Lines 441-446 for one part p: the skill appended to skills.
SkillOf(p, s) == IF upper(s) = s THEN s ELSE title(s)

RECURSIVE SkillsOf(_)
\* Lines 438-446: skills, for the list parts.
SkillsOf(parts) ==
    IF parts = <<>> THEN <<>>
    ELSE <<SkillOf(Head(parts), CollapseSpaces(Head(parts), 1, Len(Head(parts))))>>
         \o SkillsOf(Tail(parts))

RECURSIVE DedupeExact(_, _, _)
\* The loop of lines 450-453 with a set of the skills themselves: two skills
\* that differ in case only are both kept.
DedupeExact(skills_list, seen, out) ==
    IF skills_list = <<>> THEN out
    ELSE LET s == Head(skills_list)
         IN  IF s \notin seen
             THEN DedupeExact(Tail(skills_list), seen \cup {s}, Append(out, s))
             ELSE DedupeExact(Tail(skills_list), seen, out)

RECURSIVE DedupeLower(_, _, _)
\* Lines 448-453: out, for the skills not yet read.
DedupeLower(skills_list, seen, out) ==
    IF skills_list = <<>> THEN out
    ELSE LET s == Head(skills_list)
         IN  IF lower(s) \notin seen
             THEN DedupeLower(Tail(skills_list), seen \cup {lower(s)}, Append(out, s))
             ELSE DedupeLower(Tail(skills_list), seen, out)

\* Lines 435-436: parts
SkillParts(lines) == StripNonEmpty(SplitClass(Join(lines, " | "), SkillSeparators, 1))

parse_skills_section(lines) == DedupeLower(SkillsOf(SkillParts(lines)), {}, <<>>)

-----------------------------------------------------------------------------
(* 4.6 Section Entry Parsers: projects *)

\* str.endswith
endswith(s, p) == Len(s) >= Len(p) /\ SubSeq(s, Len(s) - Len(p) + 1, Len(s)) = p

\* str.rstrip(chars)
rstrip(s, chars) == SubSeq(s, 1, RunStart(s, Len(s), chars) - 1)

\* The test of line 351 on the trimmed line ln.
ProjectNameLine(ln) == ln # "" /\ (WordCount(ln) <= 10 \/ endswith(ln, ":"))

\* The lines at which the loops of lines 357 and 377 stop: not empty, of at most
\* 10 tokens and without a lowercase letter.
ProjectStopLine(line) ==
    /\ strip(line) # ""
    /\ WordCount(line) <= 10
    /\ strip(line) = upper(strip(line))

\* Line 367: [t.strip() for t in re.split(r"[,|]", l) if t.strip()]
TechOf(l) == StripNonEmpty(SplitClass(l, {",", "|"}, 1))

RECURSIVE ProjectBody(_, _, _, _)
\* Lines 362-370 for the trimmed line l, which is not empty.
ProjectLine(lines, i, bullets, tech, l) ==
    IF Ch(l, 1) \in BulletMarks
    THEN ProjectBody(lines, i + 1, Append(bullets, Unglyph(l)), tech)
    ELSE IF Contains(l, ",") \/ Contains(l, "|")
    THEN ProjectBody(lines, i + 1, bullets, tech \o TechOf(l))
    ELSE ProjectBody(lines, i + 1, Append(bullets, l), tech)

\* Lines 357-371: the bullets, the tech list and the index after them.
ProjectBody(lines, i, bullets, tech) ==
    IF i <= Len(lines) /\ ~ProjectStopLine(lines[i])
    THEN (IF strip(lines[i]) = "" THEN ProjectBody(lines, i + 1, bullets, tech)
          ELSE ProjectLine(lines, i, bullets, tech, strip(lines[i])))
    ELSE [bullets |-> bullets, tech |-> tech, i |-> i]

RECURSIVE ProjectBuffer(_, _, _)
\* Lines 376-379.
ProjectBuffer(lines, i, buffer) ==
    IF i <= Len(lines) /\ ~ProjectStopLine(lines[i])
    THEN ProjectBuffer(lines, i + 1, Append(buffer, strip(lines[i])))
    ELSE [buffer |-> buffer, i |-> i]

RECURSIVE ProjectsLoop(_, _, _)
\* Lines 352-373: the body b of the project named on the line ln is read and
\* its entry is appended.
ProjectAfterBody(lines, entries, ln, b) ==
    ProjectsLoop(lines, b.i,
        Append(entries,
            [name |-> rstrip(ln, {":"}), role |-> NoneV, tech |-> b.tech,
             bullets |-> b.bullets, raw_header |-> ln]))

\* Lines 380-381: the lines b before the next stop line are read.
ProjectAfterBuffer(lines, entries, b) ==
    ProjectsLoop(lines, b.i,
        IF b.buffer # <<>>
        THEN Append(entries,
                 [name |-> NoneV, role |-> NoneV, tech |-> <<>>,
                  bullets |-> b.buffer, raw_header |-> NoneV])
        ELSE entries)

\* Lines 349-381: one pass of the outer loop, on the trimmed line ln at index i.
ProjectsPass(lines, i, entries, ln) ==
    IF ProjectNameLine(ln)
    THEN ProjectAfterBody(lines, entries, ln, ProjectBody(lines, i + 1, <<>>, <<>>))
    ELSE ProjectAfterBuffer(lines, entries, ProjectBuffer(lines, i, <<>>))

\* Lines 348-381: the outer loop from index i (from 1) on.  A line that is no
\* project name is no stop line, so every pass consumes at least one line.
ProjectsLoop(lines, i, entries) ==
    IF i > Len(lines) THEN entries
    ELSE ProjectsPass(lines, i, entries, strip(lines[i]))

parse_projects_section(lines) == ProjectsLoop(lines, 1, <<>>)

-----------------------------------------------------------------------------
(* 4.6 Section Entry Parsers: education *)

RECURSIVE EducationBulletsShort(_, _, _)
\* Lines 400-404 with every line of at most 12 tokens taken, header-like or not.
EducationBulletsShort(lines, i, bullets) ==
    IF i <= Len(lines) /\ WordCount(lines[i]) <= 12
    THEN EducationBulletsShort(lines, i + 1,
             IF strip(lines[i]) # "" THEN Append(bullets, strip(lines[i])) ELSE bullets)
    ELSE [bullets |-> bullets, i |-> i]

RECURSIVE EducationBullets(_, _, _)
\* Lines 400-404: the bullets and the index after them.
EducationBullets(lines, i, bullets) ==
    IF i <= Len(lines) /\ WordCount(lines[i]) <= 12 /\ ~HeaderLike(lines[i])
    THEN EducationBullets(lines, i + 1,
             IF strip(lines[i]) # "" THEN Append(bullets, strip(lines[i])) ELSE bullets)
    ELSE [bullets |-> bullets, i |-> i]

\* Lines 417-419: degree and institute of a header that holds " - ", whose
\* first piece is first.
SplitDegreeAt(header, first) ==
    [degree |-> strip(first),
     institute |-> strip(SubSeq(header, Len(first) + 4, Len(header)))]

\* Lines 410-421 for the list parts of line 410.
SplitDegreeParts(header, parts) ==
    IF Len(parts) >= 2
    THEN [degree |-> parts[1], institute |-> Join(Tail(parts), ", ")]
    ELSE IF Contains(header, " - ")
    THEN SplitDegreeAt(header, Head(SplitOn(header, " - ", 1)))
    ELSE [degree |-> header, institute |-> NoneV]

\* Lines 407-421: degree and institute of a header.
SplitDegree(header) == SplitDegreeParts(header, StripNonEmpty(SplitOn(header, ",", 1)))

\* Lines 423-428.
EducationEntry(header, bullets, di) ==
    [degree |-> di.degree, institute |-> di.institute, bullets |-> bullets,
     raw_header |-> header]

RECURSIVE EducationLoop(_, _, _)
\* Lines 406-428: the bullets b of the header are read and its entry is
\* appended.
EducationAfterBullets(lines, entries, header, b) ==
    EducationLoop(lines, b.i,
                  Append(entries, EducationEntry(header, b.bullets, SplitDegree(header))))

\* Lines 391-428: one pass of the loop, on the trimmed line ln at index i.
EducationPass(lines, i, entries, ln) ==
    IF ln = "" THEN EducationLoop(lines, i + 1, entries)
    ELSE EducationAfterBullets(lines, entries, ln, EducationBullets(lines, i + 1, <<>>))

\* Lines 390-428: the loop from index i (from 1) on.
EducationLoop(lines, i, entries) ==
    IF i > Len(lines) THEN entries
    ELSE EducationPass(lines, i, entries, strip(lines[i]))

parse_education_section(lines) == EducationLoop(lines, 1, <<>>)

-----------------------------------------------------------------------------
(* 4.7 Orchestrator: the stages of parse_resume_text *)

\* The default of extract_header_info's scan_lines, which parse_resume_text uses.
ScanLinesDefault == 15

EmptyContact == [emails |-> <<>>, phones |-> <<>>, links |-> <<>>]

\* The values of the variables that no stage has assigned yet.
NoText == cleaned = "" /\ t = ""
NoBlocks == rf_blocks = <<>> /\ blocks = <<>> /\ flat_lines = <<>>
NoHeader == name = NoneV /\ name_index = NoIndex /\ contact = EmptyContact /\ remaining = <<>>
NoSections == sections = EmptyDict /\ current_section = "other" /\ seg_i = 0
NoEntries ==
    /\ experience = <<>> /\ projects = <<>> /\ education = <<>> /\ skills = <<>>
    /\ other = EmptyDict
    /\ exp_entries = <<>> /\ exp_i = 0 /\ exp_passes = 0

\* Lines 531-532.
Clean ==
    /\ pc = "start"
    /\ cleaned' = Normalize(raw_text)
    /\ pc' = "cleaned"
    /\ UNCHANGED <<raw_text, t, blockVars, headerVars, segVars, entryVars, loopVars>>

\* Line 534: the call of preprocess_text_into_blocks(cleaned).
Preprocess ==
    /\ pc = "cleaned"
    /\ t' = preprocess_t(cleaned)
    /\ blocks' = preprocess_blocks(t')
    /\ flat_lines' = Flatten(blocks')
    /\ pc' = "preprocessed"
    /\ UNCHANGED <<raw_text, cleaned, rf_blocks, headerVars, segVars, entryVars, loopVars>>

\* flat_lines left as preprocess_text_into_blocks returned it.
FlatLinesKept(bs, old) == old

\* Line 537: flat_lines after the filter; old is flat_lines before it.
FlatLinesOf(bs, old) == Flatten(bs)

\* Lines 536-537.
FilterRepeats ==
    /\ pc = "preprocessed"
    /\ rf_blocks' = blocks
    /\ blocks' = remove_repeated_header_footer(blocks)
    /\ flat_lines' = FlatLinesOf(blocks', flat_lines)
    /\ pc' = "filtered"
    /\ UNCHANGED <<textVars, headerVars, segVars, entryVars, loopVars>>

\* Line 539.
ExtractHeader ==
    /\ pc = "filtered"
    /\ \E r \in {extract_header_info(flat_lines, scan_lines)} :
           /\ name' = r.name
           /\ name_index' = r.name_index
           /\ contact' = r.contact
           /\ remaining' = r.remaining
    /\ pc' = "extracted"
    /\ UNCHANGED <<textVars, blockVars, scan_lines, segVars, entryVars, loopVars>>

\* Line 540, segment_sections lines 463-465.
SegBegin ==
    /\ pc = "extracted"
    /\ sections' = ("other" :> <<>>)
    /\ current_section' = "other"
    /\ seg_i' = 0
    /\ pc' = "segmenting"
    /\ UNCHANGED <<textVars, blockVars, headerVars, entryVars, loopVars>>

\* segment_sections lines 467-475: one pass of the loop.
SegStep ==
    /\ pc = "segmenting"
    /\ seg_i < Len(remaining)
    /\ \E st \in {SegLine([sections |-> sections, current_section |-> current_section],
                          remaining[seg_i + 1])} :
           /\ sections' = st.sections
           /\ current_section' = st.current_section
    /\ seg_i' = seg_i + 1
    /\ UNCHANGED <<pc, textVars, blockVars, headerVars, entryVars, loopVars>>

\* segment_sections lines 477-479: the loop is over.
SegFinish ==
    /\ pc = "segmenting"
    /\ seg_i = Len(remaining)
    /\ sections' = DropEmpty(sections)
    /\ pc' = "segmented"
    /\ UNCHANGED <<textVars, blockVars, headerVars, current_section, seg_i, entryVars, loopVars>>

\* Lines 543 and 549-550.
ParseExperience ==
    /\ pc = "segmented"
    /\ experience' = (IF "experience" \in DOMAIN sections
                      THEN parse_experience_section(sections["experience"])
                      ELSE <<>>)
    /\ pc' = "parsed_experience"
    /\ UNCHANGED <<textVars, blockVars, headerVars, segVars, projects, education, skills,
                   other, loopVars>>

\* Lines 544 and 552-553.
ParseProjects ==
    /\ pc = "parsed_experience"
    /\ projects' = (IF "projects" \in DOMAIN sections
                    THEN parse_projects_section(sections["projects"])
                    ELSE <<>>)
    /\ pc' = "parsed_projects"
    /\ UNCHANGED <<textVars, blockVars, headerVars, segVars, experience, education, skills,
                   other, loopVars>>

\* Lines 545 and 555-556.
ParseEducation ==
    /\ pc = "parsed_projects"
    /\ education' = (IF "education" \in DOMAIN sections
                     THEN parse_education_section(sections["education"])
                     ELSE <<>>)
    /\ pc' = "parsed_education"
    /\ UNCHANGED <<textVars, blockVars, headerVars, segVars, experience, projects, skills,
                   other, loopVars>>

\* Lines 546 and 558-559.
ParseSkills ==
    /\ pc = "parsed_education"
    /\ skills' = (IF "skills" \in DOMAIN sections
                  THEN parse_skills_section(sections["skills"])
                  ELSE <<>>)
    /\ pc' = "parsed_skills"
    /\ UNCHANGED <<textVars, blockVars, headerVars, segVars, experience, projects, education,
                   other, loopVars>>

\* Lines 547 and 562-564: the sections kept as lists of lines; the result of
\* lines 566-580 is then made of the variables.
CollectOther ==
    /\ pc = "parsed_skills"
    /\ other' = [k \in {"certifications", "awards", "summary"} \cap DOMAIN sections |->
                     sections[k]]
    /\ pc' = "done"
    /\ UNCHANGED <<textVars, blockVars, headerVars, segVars, experience, projects, education,
                   skills, loopVars>>

\* The most passes of the outer loop of parse_experience_section that are
\* followed.
MaxPasses == 4

\* parse_experience_section lines 247-249: the call of line 550.
ExpBegin ==
    /\ pc = "segmented"
    /\ "experience" \in DOMAIN sections
    /\ exp_entries' = <<>>
    /\ exp_i' = 0
    /\ exp_passes' = 0
    /\ pc' = "exp_loop"
    /\ UNCHANGED <<textVars, blockVars, headerVars, segVars, entryVars>>

\* parse_experience_section lines 252-337: one pass of the outer loop.
ExpPass ==
    /\ pc = "exp_loop"
    /\ exp_i < Len(sections["experience"])
    /\ exp_passes < MaxPasses
    /\ \E r \in {ExperiencePass(sections["experience"], exp_i + 1, exp_entries)} :
           /\ exp_i' = r.i - 1
           /\ exp_entries' = r.entries
    /\ exp_passes' = exp_passes + 1
    /\ UNCHANGED <<pc, textVars, blockVars, headerVars, segVars, entryVars>>

\* parse_experience_section line 339 and line 550: the loop is over.
ExpReturn ==
    /\ pc = "exp_loop"
    /\ exp_i >= Len(sections["experience"])
    /\ experience' = exp_entries
    /\ pc' = "parsed_experience"
    /\ UNCHANGED <<textVars, blockVars, headerVars, segVars, projects, education, skills,
                   other, loopVars>>

-----------------------------------------------------------------------------
(* The specifications *)

(* parse_resume_text on every small document *)

\* The most lines a document has.
MaxDocLines == 4

RECURSIVE Documents(_)
\* The texts of at most n lines of DocPool, each line but the first after a
\* line break or an empty line.
Documents(n) ==
    IF n = 0 THEN {""}
    ELSE LET shorter == Documents(n - 1)
         IN  shorter \cup DocPool
                 \cup {d \o sep \o l : d \in shorter \ {""}, sep \in {"\n", "\n\n"}, l \in DocPool}

Init ==
    /\ pc = "start"
    /\ raw_text \in Documents(MaxDocLines)
    /\ NoText /\ NoBlocks
    /\ scan_lines = ScanLinesDefault
    /\ NoHeader /\ NoSections /\ NoEntries

Next ==
    \/ Clean
    \/ Preprocess
    \/ FilterRepeats
    \/ ExtractHeader
    \/ SegBegin
    \/ SegStep
    \/ SegFinish
    \/ ParseExperience
    \/ ParseProjects
    \/ ParseEducation
    \/ ParseSkills
    \/ CollectOther

Spec == Init /\ [][Next]_vars

(* The Normalizer on every short text *)

\* The longest text given to the Normalizer.
MaxTextLen == 7

\* The characters of those texts: a word character, the hyphen, the two line
\* breaks and a blank.
TextAlphabet == {"a", "-", "\n", "\r", " "}

RECURSIVE Texts(_)
Texts(n) ==
    IF n = 0 THEN {""}
    ELSE LET shorter == Texts(n - 1)
         IN  shorter \cup {s \o c : s \in shorter, c \in TextAlphabet}

InitNorm ==
    /\ pc = "start"
    /\ raw_text \in Texts(MaxTextLen)
    /\ NoText /\ NoBlocks
    /\ scan_lines = ScanLinesDefault
    /\ NoHeader /\ NoSections /\ NoEntries

NextNorm == Clean \/ Preprocess

SpecNorm == InitNorm /\ [][NextNorm]_vars

(* The Repetition Filter on every small list of blocks *)

\* The most lines the blocks given to the filter hold.
MaxFilterLines == 5

RECURSIVE Groupings(_)
\* Every way to cut the line sequence ls into consecutive non-empty blocks.
Groupings(ls) ==
    IF ls = <<>> THEN {<<>>}
    ELSE UNION {{<<SubSeq(ls, 1, k)>> \o g : g \in Groupings(SubSeq(ls, k + 1, Len(ls)))}
                : k \in 1..Len(ls)}

\* remove_repeated_header_footer is about to be called on blocks.
InitFilter ==
    /\ pc = "preprocessed"
    /\ raw_text = "" /\ NoText
    /\ \E ls \in LineSeqs(FilterPool, MaxFilterLines) : blocks \in Groupings(ls)
    /\ rf_blocks = <<>>
    /\ flat_lines = Flatten(blocks)
    /\ scan_lines = ScanLinesDefault
    /\ NoHeader /\ NoSections /\ NoEntries

NextFilter == FilterRepeats

SpecFilter == InitFilter /\ [][NextFilter]_vars

(* The Header Extractor on every short list of lines *)

\* The most lines given to the Header Extractor.
MaxHeaderLines == 4

\* A scan window shorter than these lists.
HeaderWindow == 3

\* extract_header_info is about to be called on flat_lines.
InitHeader ==
    /\ pc = "filtered"
    /\ raw_text = "" /\ NoText
    /\ flat_lines \in LineSeqs(HeaderPool, MaxHeaderLines)
    /\ blocks = (IF flat_lines = <<>> THEN <<>> ELSE <<flat_lines>>)
    /\ rf_blocks = blocks
    /\ scan_lines \in {HeaderWindow, ScanLinesDefault}
    /\ NoHeader /\ NoSections /\ NoEntries

NextHeader == ExtractHeader

SpecHeader == InitHeader /\ [][NextHeader]_vars

(* The Section Segmenter on every short list of lines *)

\* The most lines given to the Section Segmenter.
MaxSegLines == 5

\* segment_sections is about to be called on remaining.
InitSeg ==
    /\ pc = "extracted"
    /\ raw_text = "" /\ NoText /\ NoBlocks
    /\ scan_lines = ScanLinesDefault
    /\ name = NoneV /\ name_index = NoIndex /\ contact = EmptyContact
    /\ remaining \in LineSeqs(SegPool, MaxSegLines)
    /\ NoSections /\ NoEntries

NextSeg == SegBegin \/ SegStep \/ SegFinish

SpecSeg == InitSeg /\ [][NextSeg]_vars

(* The experience parser on every short experience section *)

\* The most lines of an experience section.
MaxExpLines == 4

\* parse_experience_section is about to be called on sections["experience"]: the
\* segmenter has returned the section, which is never empty.
InitExp ==
    /\ pc = "segmented"
    /\ raw_text = "" /\ NoText /\ NoBlocks
    /\ scan_lines = ScanLinesDefault
    /\ NoHeader
    /\ \E ls \in LineSeqs(ExpPool, MaxExpLines) \ {<<>>} : sections = ("experience" :> ls)
    /\ current_section = "experience"
    /\ seg_i = 0
    /\ NoEntries

NextExp == ParseExperience

SpecExp == InitExp /\ [][NextExp]_vars

(* The contact lists of the Header Extractor *)

\* The most lines given to the Header Extractor for its contact lists.
MaxContactLines == 4

\* A scan window shorter than these lists.
ContactWindow == 3

\* extract_header_info is about to be called on flat_lines.
InitContact ==
    /\ pc = "filtered"
    /\ raw_text = "" /\ NoText
    /\ flat_lines \in LineSeqs(ContactPool, MaxContactLines)
    /\ blocks = (IF flat_lines = <<>> THEN <<>> ELSE <<flat_lines>>)
    /\ rf_blocks = blocks
    /\ scan_lines \in {ContactWindow, ScanLinesDefault}
    /\ NoHeader /\ NoSections /\ NoEntries

NextContact == ExtractHeader

SpecContact == InitContact /\ [][NextContact]_vars

(* The skills parser on every short skills section *)

\* The lines of a skills section: the two lines of the example, a skill in two
\* cases, a skill in lowercase, and a phrase with a run of blanks.
SkillsPool == {"Python, SQL", "AWS | Docker", "sql; node.js", "python",
               "machine  learning,k8s"}

\* The most lines of a skills section.
MaxSkillLines == 3

\* parse_skills_section is about to be called on sections["skills"], which is
\* never empty.
InitSkills ==
    /\ pc = "parsed_education"
    /\ raw_text = "" /\ NoText /\ NoBlocks
    /\ scan_lines = ScanLinesDefault
    /\ NoHeader
    /\ \E ls \in LineSeqs(SkillsPool, MaxSkillLines) \ {<<>>} : sections = ("skills" :> ls)
    /\ current_section = "skills"
    /\ seg_i = 0
    /\ NoEntries

NextSkills == ParseSkills

SpecSkills == InitSkills /\ [][NextSkills]_vars

(* The heading test on every line of the segmenter's input *)

\* The most lines given to the Section Segmenter for the heading test.
MaxHeadingLines == 2

\* segment_sections is about to be called on remaining.
InitLabel ==
    /\ pc = "extracted"
    /\ raw_text = "" /\ NoText /\ NoBlocks
    /\ scan_lines = ScanLinesDefault
    /\ name = NoneV /\ name_index = NoIndex /\ contact = EmptyContact
    /\ remaining \in LineSeqs(HeadingPool, MaxHeadingLines)
    /\ NoSections /\ NoEntries

NextLabel == SegBegin \/ SegStep \/ SegFinish

SpecLabel == InitLabel /\ [][NextLabel]_vars

(* The projects parser on every short projects section *)

\* The lines of a projects section: two project names in mixed case, one of
\* them with a colon, a name in capitals, a bullet and a line of technologies.
ProjPool == {"Resume Parser", "Chat App:", "CHAT APP", "- built x", "Python, Flask"}

\* The most lines of a projects section.
MaxProjLines == 3

\* parse_projects_section is about to be called on sections["projects"], which
\* is never empty.
InitProj ==
    /\ pc = "parsed_experience"
    /\ raw_text = "" /\ NoText /\ NoBlocks
    /\ scan_lines = ScanLinesDefault
    /\ NoHeader
    /\ \E ls \in LineSeqs(ProjPool, MaxProjLines) \ {<<>>} : sections = ("projects" :> ls)
    /\ current_section = "projects"
    /\ seg_i = 0
    /\ NoEntries

NextProj == ParseProjects

SpecProj == InitProj /\ [][NextProj]_vars

(* The experience parser on the headers of every short experience section *)

\* The most lines of an experience section of headers.
MaxTitleLines == 3

\* parse_experience_section is about to be called on sections["experience"],
\* which is never empty.
InitTitle ==
    /\ pc = "segmented"
    /\ raw_text = "" /\ NoText /\ NoBlocks
    /\ scan_lines = ScanLinesDefault
    /\ NoHeader
    /\ \E ls \in LineSeqs(TitlePool, MaxTitleLines) \ {<<>>} : sections = ("experience" :> ls)
    /\ current_section = "experience"
    /\ seg_i = 0
    /\ NoEntries

NextTitle == ParseExperience

SpecTitle == InitTitle /\ [][NextTitle]_vars

(* The Block Segmenter and the Repetition Filter on every short text *)

\* The longest text given to the Block Segmenter.
MaxBlockTextLen == 7

\* The characters of those texts: a word character, a blank and a line break.
BlockAlphabet == {"a", " ", "\n"}

RECURSIVE BlockTexts(_)
BlockTexts(n) ==
    IF n = 0 THEN {""}
    ELSE LET shorter == BlockTexts(n - 1)
         IN  shorter \cup {s \o c : s \in shorter, c \in BlockAlphabet}

InitBlocks ==
    /\ pc = "start"
    /\ raw_text \in BlockTexts(MaxBlockTextLen)
    /\ NoText /\ NoBlocks
    /\ scan_lines = ScanLinesDefault
    /\ NoHeader /\ NoSections /\ NoEntries

NextBlocks == Clean \/ Preprocess \/ FilterRepeats

SpecBlocks == InitBlocks /\ [][NextBlocks]_vars

(* The outer loop of the experience parser on every short list of strings *)

\* The most strings given to parse_experience_section.
MaxLoopLines == 3

\* parse_experience_section is about to be called on a list of strings, held by
\* sections["experience"].
InitLoop ==
    /\ pc = "segmented"
    /\ raw_text = "" /\ NoText /\ NoBlocks
    /\ scan_lines = ScanLinesDefault
    /\ NoHeader
    /\ \E ls \in LineSeqs(LoopPool, MaxLoopLines) : sections = ("experience" :> ls)
    /\ current_section = "experience"
    /\ seg_i = 0
    /\ NoEntries

NextLoop == ExpBegin \/ ExpPass \/ ExpReturn

SpecLoop == InitLoop /\ [][NextLoop]_vars

(* The education parser on every short education section *)

\* The most lines of an education section.
MaxEduLines == 3

\* parse_education_section is about to be called on sections["education"].
InitEdu ==
    /\ pc = "parsed_projects"
    /\ raw_text = "" /\ NoText /\ NoBlocks
    /\ scan_lines = ScanLinesDefault
    /\ NoHeader
    /\ \E ls \in LineSeqs(EduPool, MaxEduLines) \ {<<>>} : sections = ("education" :> ls)
    /\ current_section = "education"
    /\ seg_i = 0
    /\ NoEntries

NextEdu == ParseEducation

SpecEdu == InitEdu /\ [][NextEdu]_vars

(* The experience parser on every short list of trimmed lines *)

\* Trimmed lines of an experience section: a header "<title> at <company>", a
\* range of dates, a bullet and a short line of text, the last two not
\* header-like.
EntryPool == {"Senior Engineer at Acme Corp", "Jan 2020 - Present", "- fixed bugs",
              "built a thing"}

\* The most lines of such a section.
MaxEntryLines == 4

\* parse_experience_section is about to be called on sections["experience"],
\* which is never empty and holds trimmed lines.
InitEntries ==
    /\ pc = "segmented"
    /\ raw_text = "" /\ NoText /\ NoBlocks
    /\ scan_lines = ScanLinesDefault
    /\ NoHeader
    /\ \E ls \in LineSeqs(EntryPool, MaxEntryLines) \ {<<>>} :
           sections = ("experience" :> ls)
    /\ current_section = "experience"
    /\ seg_i = 0
    /\ NoEntries

NextEntries == ParseExperience

SpecEntries == InitEntries /\ [][NextEntries]_vars

-----------------------------------------------------------------------------
(* The claims *)

\* The line has the form "<title> at <company>": a blank, "at" and a blank
\* stand at position p, with text on both sides.
AtHeader(line, p) ==
    /\ p > 1 /\ p + 4 <= Len(line)
    /\ SubSeq(line, p, p + 3) = " at "

\* The line has the form "<start> - <end>" and holds a range of dates: the
\* hyphen between two blanks stands at position p.
DateRange(line, p) ==
    /\ p > 1 /\ p + 3 <= Len(line)
    /\ SubSeq(line, p, p + 2) = " - "
    /\ DateSearch(line) = <<[start |-> 1, end |-> Len(line) + 1]>>

\* The line starts with a bullet glyph.
BulletLine(line) == line # "" /\ Ch(line, 1) \in BulletMarks

\* C1: an experience section that is one header "<title> at <company>", then one
\* range of dates, then k >= 1 bullet lines gives exactly one entry, with the
\* title and the company of the header, the two sides of the range as its dates
\* and the k bullets without their glyphs, in order.
C1_OneEntryPerJob ==
    (pc = "parsed_experience" /\ "experience" \in DOMAIN sections) =>
        LET lines == sections["experience"]
        IN  \A p \in 1..Len(lines[1]) :
                (/\ Len(lines) >= 3
                 /\ AtHeader(lines[1], p)
                 /\ \A i \in 3..Len(lines) : BulletLine(lines[i]))
                => \A q \in 1..Len(lines[2]) :
                       DateRange(lines[2], q) =>
                           /\ Len(experience) = 1
                           /\ experience[1].title = SubSeq(lines[1], 1, p - 1)
                           /\ experience[1].company = SubSeq(lines[1], p + 4, Len(lines[1]))
                           /\ experience[1].start_date = SubSeq(lines[2], 1, q - 1)
                           /\ experience[1].end_date = SubSeq(lines[2], q + 3, Len(lines[2]))
                           /\ experience[1].bullets =
                                  [i \in 1..(Len(lines) - 2) |-> Unglyph(lines[i + 2])]

\* C2: the Normalizer is idempotent: the second normalization, which
\* preprocess_text_into_blocks runs on the text parse_resume_text has already
\* normalized, returns its argument unchanged.
C2_NormalizeIdempotent == pc = "preprocessed" => t = cleaned

\* The lines of the input text.
InputLines == StripNonEmpty(splitlines(raw_text))

\* The line is the canonical label p of the section k, in any case.
ExactLabel(line, k) == \E e \in Range(Patterns) : e.sect = k /\ e.p = lower(line)

\* C3: when the input text holds a heading that is a canonical label, followed
\* by two lines that are no headings and end the document, the section of the
\* label holds these two lines, wherever the heading is; the document has no
\* other heading of that section, the two lines occur once and hold no email,
\* phone number or link.
C3_HeadingRoundTrip ==
    pc \in {"segmented", "parsed_experience"} =>
        LET doc == InputLines
        IN  \A i \in 1..(Len(doc) - 2) : \A k \in Range(SectionKeys) :
                (/\ ExactLabel(doc[i], k)
                 /\ i + 2 = Len(doc)
                 /\ \A j \in 1..Len(doc) : j # i => SectionOf(doc[j]) # k
                 /\ \A j \in {i + 1, i + 2} :
                        /\ SectionOf(doc[j]) = NoneV
                        /\ ~ContactLine(doc[j])
                        /\ \A j2 \in 1..Len(doc) : j2 # j => doc[j2] # doc[j])
                => /\ k \in DOMAIN sections
                   /\ sections[k] = <<doc[i + 1], doc[i + 2]>>

\* The pointer after the first i lines: the key of the last heading among them,
\* "other" when they hold none.
PointerAfter(lines, i) ==
    LET hs == {j \in 1..i : SectionOf(lines[j]) # NoneV}
    IN  IF hs = {} THEN "other"
        ELSE SectionOf(lines[CHOOSE j \in hs : \A j2 \in hs : j2 <= j])

RECURSIVE LinesUnder(_, _, _)
\* The lines among the first i that are no headings and were read while the
\* pointer was k, in order.
LinesUnder(lines, i, k) ==
    IF i = 0 THEN <<>>
    ELSE LinesUnder(lines, i - 1, k)
             \o (IF SectionOf(lines[i]) = NoneV /\ PointerAfter(lines, i - 1) = k
                 THEN <<lines[i]>> ELSE <<>>)

\* The keys a section can have.
SectionNames == Range(SectionKeys) \cup {"other"}

\* C4: the pointer starts at "other"; after any prefix of the lines the pointer
\* is the key of the last heading read ("other" when none was read), every
\* section holds the lines that are no headings and were read while the pointer
\* was its key, in order, and no heading read is in the content of a section.
C4_PointerFollowsHeadings ==
    pc = "segmenting" =>
        /\ seg_i = 0 => current_section = "other"
        /\ current_section = PointerAfter(remaining, seg_i)
        /\ DOMAIN sections \subseteq SectionNames
        /\ \A k \in DOMAIN sections : sections[k] = LinesUnder(remaining, seg_i, k)
        /\ \A k \in SectionNames \ DOMAIN sections : LinesUnder(remaining, seg_i, k) = <<>>
        /\ \A j \in 1..seg_i :
               SectionOf(remaining[j]) # NoneV =>
                   \A k \in DOMAIN sections : remaining[j] \notin Range(sections[k])

\* All the lines are read: text before any heading, then a heading with text
\* under it, among headings of two sections.
C4_Witness ==
    /\ pc = "segmenting"
    /\ seg_i = Len(remaining)
    /\ seg_i >= 4
    /\ sections["other"] # <<>>
    /\ current_section # "other"
    /\ sections[current_section] # <<>>
    /\ \E j \in 1..seg_i : SectionOf(remaining[j]) \notin {NoneV, current_section}

\* The number of elements of q equal to x.
Occurrences(q, x) == Cardinality({i \in 1..Len(q) : q[i] = x})

\* The number of lines equal to x in the values of the dict d.
OccurrencesIn(d, x) ==
    LET RECURSIVE sum(_)
        sum(ks) == IF ks = {} THEN 0
                   ELSE LET k == CHOOSE k \in ks : TRUE
                        IN  Occurrences(d[k], x) + sum(ks \ {k})
    IN  sum(DOMAIN d)

RECURSIVE IsSubsequence(_, _)
\* a is b without some of its elements.
IsSubsequence(a, b) ==
    IF a = <<>> THEN TRUE
    ELSE IF b = <<>> THEN FALSE
    ELSE IF Head(a) = Head(b) THEN IsSubsequence(Tail(a), Tail(b))
    ELSE IsSubsequence(a, Tail(b))

\* C5 as stated: the values of the returned dict hold exactly the lines given,
\* each as often as it was given, every value in the order of the input.
C5_ValuesReconstructInput ==
    pc = "segmented" =>
        /\ \A x \in Range(remaining) : OccurrencesIn(sections, x) = Occurrences(remaining, x)
        /\ \A k \in DOMAIN sections :
               /\ Range(sections[k]) \subseteq Range(remaining)
               /\ IsSubsequence(sections[k], remaining)

\* The lines given that are no headings.
NonHeadings(lines) == SelectSeq(lines, LAMBDA ln : SectionOf(ln) = NoneV)

\* C5, amended: the values of the returned dict hold exactly the lines given that
\* are no headings, each as often as it was given, every value in the order of
\* the input; no value is empty.
C5_ValuesReconstructNonHeadings ==
    pc = "segmented" =>
        /\ \A x \in Range(NonHeadings(remaining)) :
               OccurrencesIn(sections, x) = Occurrences(remaining, x)
        /\ \A k \in DOMAIN sections :
               /\ sections[k] # <<>>
               /\ Range(sections[k]) \subseteq Range(NonHeadings(remaining))
               /\ IsSubsequence(sections[k], remaining)

\* A section was entered twice, with a line under each of its two headings, and
\* there is text before the first heading.
C5_Witness ==
    /\ pc = "segmented"
    /\ "other" \in DOMAIN sections
    /\ \E k \in DOMAIN sections \ {"other"} :
           /\ Len(sections[k]) >= 2
           /\ \E i, j \in 1..Len(remaining) :
                  /\ i + 1 < j /\ j < Len(remaining)
                  /\ SectionOf(remaining[i]) = k /\ SectionOf(remaining[j]) = k
                  /\ SectionOf(remaining[i + 1]) = NoneV
                  /\ SectionOf(remaining[j + 1]) = NoneV

\* The blocks of bs that hold the line ln.
BlocksHolding(bs, ln) == {b \in 1..Len(bs) : \E j \in 1..Len(bs[b]) : bs[b][j] = ln}

\* The line at line j of block b of bs is a candidate (at most 6 words, in more
\* than one block) and is not its first occurrence in document order.
LaterOccurrence(bs, b, j) ==
    /\ WordCount(bs[b][j]) <= 6
    /\ Cardinality(BlocksHolding(bs, bs[b][j])) > 1
    /\ \/ \E j2 \in 1..(j - 1) : bs[b][j2] = bs[b][j]
       \/ \E b2 \in 1..(b - 1) : b2 \in BlocksHolding(bs, bs[b][j])

RECURSIVE KeepLines(_, _, _, _)
\* Block b of bs from line j on, without the later occurrences.
KeepLines(bs, b, j, unused) ==
    IF j > Len(bs[b]) THEN <<>>
    ELSE (IF LaterOccurrence(bs, b, j) THEN <<>> ELSE <<bs[b][j]>>)
             \o KeepLines(bs, b, j + 1, unused)

RECURSIVE KeepBlocks(_, _)
\* bs from block b on, without the later occurrences and the blocks left empty.
KeepBlocks(bs, b) ==
    IF b > Len(bs) THEN <<>>
    ELSE LET kept == KeepLines(bs, b, 1, 0)
         IN  (IF kept # <<>> THEN <<kept>> ELSE <<>>) \o KeepBlocks(bs, b + 1)

\* C6: the filter returns its input without the occurrences, after the first in
\* document order, of every line of at most 6 words that more than one block
\* holds, and without the blocks this leaves empty; nothing else is removed.
C6_FilterKeepsFirstOnly == pc = "filtered" => blocks = KeepBlocks(rf_blocks, 1)

\* A line of at most 6 words held by 3 of 5 blocks is left in one block only.
C6_Witness ==
    /\ pc = "filtered"
    /\ Len(rf_blocks) = 5
    /\ \E b \in 1..5 : \E j \in 1..Len(rf_blocks[b]) :
           /\ WordCount(rf_blocks[b][j]) <= 6
           /\ Cardinality(BlocksHolding(rf_blocks, rf_blocks[b][j])) = 3
           /\ Cardinality(BlocksHolding(blocks, rf_blocks[b][j])) = 1
    /\ blocks # rf_blocks

RECURSIVE SumLen(_)
\* sum(len(block) for block in blocks)
SumLen(bs) == IF bs = <<>> THEN 0 ELSE Len(Head(bs)) + SumLen(Tail(bs))

\* C7: once the blocks exist, lines is the concatenation of the blocks in order
\* and its length is the sum of their lengths, also after the filter has
\* changed the blocks.
C7_LinesAreBlocksInOrder ==
    pc \notin {"start", "cleaned"} =>
        /\ flat_lines = Flatten(blocks)
        /\ Len(flat_lines) = SumLen(blocks)

\* The result of a document of which the filter has removed a line.
C7_Witness ==
    /\ pc = "parsed_experience"
    /\ Len(rf_blocks) >= 2
    /\ blocks # rf_blocks
    /\ flat_lines # <<>>

\* The lines the Header Extractor scans.
Window == 1..(IF scan_lines < Len(flat_lines) THEN scan_lines ELSE Len(flat_lines))

\* C8: every phone number of at least 7 digits that the phone pattern matches in
\* a line of the scan window is in contact.phones, as the text matched, once.
C8_PhonesHoldMatchedText ==
    pc = "extracted" =>
        \A i \in Window :
            \A m \in Range(PhoneMatches(flat_lines[i], 1)) :
                DigitCount(m) >= 7 => Count(contact.phones, LAMBDA x : x = m) = 1

\* The four conditions of the name heuristic as the claim states them.
NameLike(line) ==
    LET words == split(line)
    IN  /\ Len(words) <= 4
        /\ \A x \in NameStopWords : ~Contains(lower(line), x)
        /\ 2 * Count(words, AlphaWord) >= Len(words)
        /\ \E k \in 1..Len(words) : Ch(words[k], 1) \in Upper

\* C9: the name is the first line of the scan window that has at most 4 words,
\* no stop word, at least half of its tokens alphabetic and a token that starts
\* with an uppercase letter; it is null when the window has no such line.
C9_NameIsFirstNameLike ==
    pc = "extracted" =>
        LET like == {i \in Window : NameLike(flat_lines[i])}
        IN  IF like = {} THEN name = NoneV
            ELSE name = flat_lines[CHOOSE i \in like : \A k \in like : i <= k]

\* C10: the body holds no line of the scan window that is at or before the line
\* of the name, and no line of the scan window that holds an email, a phone
\* number or a link, whether a name was found or not.
C10_HeaderLinesRemoved ==
    pc = "extracted" =>
        \A i \in Window :
            (\/ name_index # NoIndex /\ i - 1 <= name_index
             \/ ContactLine(flat_lines[i]))
                => flat_lines[i] \notin Range(remaining)

\* The name is on the second line, the first line holds no contact, a line with
\* contact follows the name inside the window, and a line is left in the body.
C10_Witness ==
    /\ pc = "extracted"
    /\ Len(flat_lines) >= 3
    /\ name_index = 1
    /\ name = flat_lines[2]
    /\ ~ContactLine(flat_lines[1])
    /\ \E i \in Window : i > 2 /\ ContactLine(flat_lines[i])
    /\ remaining # <<>>
    /\ Len(remaining) < Len(flat_lines)

\* The matches of the email pattern, and of the link pattern, in the lines of
\* the scan window, in the order of the lines and, in a line, from the left.
WindowEmails == Flatten([i \in Window |-> Facts(flat_lines[i]).emails])
WindowLinks == Flatten([i \in Window |-> Facts(flat_lines[i]).links])

\* The elements of q at the indices of keep, in the order of q.
AtIndices(q, keep) ==
    [k \in 1..Cardinality(keep) |->
         q[CHOOSE i \in keep : Cardinality({j \in keep : j < i}) = k - 1]]

\* The values of q, each once, in the order of their first occurrence.
FirstOccurrences(q) ==
    AtIndices(q, {i \in 1..Len(q) : \A j \in 1..(i - 1) : q[j] # q[i]})

\* C11: contact.emails and contact.links hold every email and every link
\* matched in the scan window exactly once, in the order of first appearance.
C11_ContactListsDeduplicated ==
    pc = "extracted" =>
        /\ contact.emails = FirstOccurrences(WindowEmails)
        /\ contact.links = FirstOccurrences(WindowLinks)

\* A line of the window holds an email twice, a later line of the window holds
\* it again, a link occurs twice in the window, and each is listed once.
C11_Witness ==
    /\ pc = "extracted"
    /\ \E i, j \in Window :
           /\ i < j
           /\ \E e \in Range(Facts(flat_lines[j]).emails) :
                  /\ Occurrences(Facts(flat_lines[i]).emails, e) = 2
                  /\ Occurrences(contact.emails, e) = 1
    /\ \E l \in Range(WindowLinks) :
           /\ Occurrences(WindowLinks, l) >= 2
           /\ Occurrences(contact.links, l) = 1

\* The first match of the email pattern in every line of the scan window.
WindowFirstEmails == Flatten([i \in Window |-> Take(Facts(flat_lines[i]).emails, 1)])

\* C12: contact.emails holds the first email of every line of the scan window
\* and no other email of the line.
C12_FirstEmailOfEachLine ==
    pc = "extracted" => contact.emails = FirstOccurrences(WindowFirstEmails)

\* The phrase has no lowercase letter.
FullyUppercase(p) == \A i \in 1..Len(p) : Ch(p, i) \notin Lower

\* The phrases of a skills section, each as it is when it is fully uppercase
\* and title-cased otherwise.
CasedPhrases(lines) ==
    LET ph == SkillParts(lines)
    IN  [k \in 1..Len(ph) |->
             LET s == CollapseSpaces(ph[k], 1, Len(ph[k]))
             IN  IF FullyUppercase(s) THEN s ELSE title(s)]

C13_PlainDocumentGivesOther ==
    (pc = "done" /\ \A ln \in Range(flat_lines) : SectionOf(ln) = NoneV /\ ~ContactLine(ln)) =>
        /\ name = NoneV
        /\ contact = EmptyContact
        /\ DOMAIN sections = {"other"}
        /\ sections["other"] = flat_lines
        /\ experience = <<>> /\ projects = <<>> /\ education = <<>> /\ skills = <<>>

\* The line in its normalized form: lowercased, every character that is no
\* lowercase letter, digit or whitespace replaced by a blank, every run of
\* whitespace made one blank, and trimmed.
NormalizedLine(line) == _normalize_for_matching(line)

\* The indices, in the order of the table, of the keys that have a label held
\* by the normalized form of the line.
LabelKeys(line) ==
    {k \in 1..Len(SectionKeys) :
         \E i \in 1..Len(SECTION_PATTERNS[SectionKeys[k]]) :
             Contains(NormalizedLine(line), SECTION_PATTERNS[SectionKeys[k]][i])}

C16_NoSeparatorOneBlock ==
    (pc = "preprocessed" /\ ~Contains(t, "\n\n")) => Len(blocks) = 1

\* The entries of the projects parser that have a name.
NamedProjects == SelectSeq(projects, LAMBDA e : e.name # NoneV)

\* The lines of the section that are not empty and have at most 10 tokens or
\* end in a colon.
ProjectNameLines ==
    AtIndices(sections["projects"],
              {i \in 1..Len(sections["projects"]) :
                   /\ strip(sections["projects"][i]) # ""
                   /\ \/ WordCount(sections["projects"][i]) <= 10
                      \/ endswith(strip(sections["projects"][i]), ":")})

\* C17: every line of at most 10 tokens, and every line that ends in a colon,
\* starts a project entry of its own, whose name is the line without its
\* trailing colon; two project names in a row give two entries.
C17_EveryNameLineStartsEntry ==
    (pc = "parsed_projects" /\ "projects" \in DOMAIN sections) =>
        /\ Len(NamedProjects) = Len(ProjectNameLines)
        /\ \A k \in 1..Len(NamedProjects) :
               /\ NamedProjects[k].raw_header = strip(ProjectNameLines[k])
               /\ NamedProjects[k].name = rstrip(strip(ProjectNameLines[k]), {":"})
        /\ sections["projects"] = <<"Resume Parser", "Chat App:">> => Len(projects) = 2

\* The first position of h at which sep occurs, compared in lowercase.
FirstAt(h, sep) == LeastOr0({j \in 1..Len(h) : StartsAt(lower(h), j, sep)})

\* Title and organization of h split at the first occurrence of sep, which is
\* at position j.
SplitAround(h, j, sep) ==
    [title |-> strip(SubSeq(h, 1, j - 1)),
     company |-> strip(SubSeq(h, j + Len(sep), Len(h)))]

\* Title and organization of the header h as the claim states them.
TitleAndOrganization(h) ==
    LET segments == StripNonEmpty(SplitOn(h, ",", 1))
    IN  IF FirstAt(h, "@") > 0 THEN SplitAround(h, FirstAt(h, "@"), "@")
        ELSE IF FirstAt(h, " at ") > 0 THEN SplitAround(h, FirstAt(h, " at "), " at ")
        ELSE IF Len(segments) >= 2
        THEN [title |-> segments[1], company |-> Join(Tail(segments), ", ")]
        ELSE [title |-> h, company |-> NoneV]

\* C18: title and company of every experience entry with a header are split
\* from the header on the first "@", else on " at " in any case, else on the
\* commas with every segment after the first joined into the company, else the
\* header is the title and the company is null.
C18_TitleSplitPriority ==
    pc = "parsed_experience" =>
        \A k \in 1..Len(experience) :
            experience[k].raw_header # NoneV =>
                /\ experience[k].title = TitleAndOrganization(experience[k].raw_header).title
                /\ experience[k].company =
                       TitleAndOrganization(experience[k].raw_header).company

\* The line is not empty and neither starts nor ends with whitespace.
TrimmedLine(ln) == ln # "" /\ Ch(ln, 1) \notin Space /\ Ch(ln, Len(ln)) \notin Space

\* C19: every block that the Block Segmenter returns, and every block that the
\* Repetition Filter leaves, has a line, and every line of it is not empty and
\* has no whitespace at its ends.
C19_BlocksHoldTrimmedLines ==
    pc \in {"preprocessed", "filtered"} =>
        \A b \in 1..Len(blocks) :
            /\ blocks[b] # <<>>
            /\ \A j \in 1..Len(blocks[b]) : TrimmedLine(blocks[b][j])

\* The filter has removed every line of a block and has left a block, and a
\* line of the text had whitespace at an end.
C19_Witness ==
    /\ pc = "filtered"
    /\ blocks # <<>>
    /\ Len(blocks) < Len(rf_blocks)
    /\ \E i \in 1..Len(splitlines(t)) :
           strip(splitlines(t)[i]) # "" /\ strip(splitlines(t)[i]) # splitlines(t)[i]

\* C20: every pass of the outer loop of the experience parser advances its
\* line index, so the parser reaches its return for every list of strings.
C20_EveryPassAdvances ==
    [][exp_passes' = exp_passes + 1 => exp_i' > exp_i]_vars

\* The index of the first header-like line of the lines, one past the last
\* line when there is none.
FirstHeaderLike(lines) ==
    LeastOr0({i \in 1..Len(lines) : HeaderLike(lines[i])} \cup {Len(lines) + 1})

\* C21: the experience parser returns at most one entry without a header; when
\* there is one it is the first entry and its bullets are the lines before the
\* first header-like line, in order and as they are in the input.
C21_HeaderlessEntryIsLeadingLines ==
    pc = "parsed_experience" =>
        LET lines == sections["experience"]
        IN  /\ \A j \in 2..Len(experience) : experience[j].raw_header # NoneV
            /\ (experience # <<>> /\ experience[1].raw_header = NoneV) =>
                   experience[1].bullets =
                       SubSeq(lines, 1, FirstHeaderLike(lines) - 1)


\* Lines precede the first header, and a header follows them.
C21_Witness ==
    /\ pc = "parsed_experience"
    /\ Len(experience) >= 2
    /\ experience[1].raw_header = NoneV
    /\ Len(experience[1].bullets) >= 2
    /\ experience[2].raw_header # NoneV


RECURSIVE Consumed(_, _, _, _)
\* The lines from index i on are consumed, one after the other, by the entries
\* from index j on: each entry takes h lines as the parts of its header (none
\* when it has no header) and then one line for each of its bullets, the bullet
\* being the line or the line without its glyphs.
Consumed(lines, i, entries, j) ==
    IF j > Len(entries) THEN i = Len(lines) + 1
    ELSE \E h \in 0..(Len(lines) - i + 1) :
             /\ i + h + Len(entries[j].bullets) - 1 <= Len(lines)
             /\ entries[j].raw_header =
                    (IF h = 0 THEN NoneV ELSE Join(SubSeq(lines, i, i + h - 1), " | "))
             /\ \A k \in 1..Len(entries[j].bullets) :
                    entries[j].bullets[k] \in
                        {lines[i + h + k - 1], Unglyph(lines[i + h + k - 1])}
             /\ Consumed(lines, i + h + Len(entries[j].bullets), entries, j + 1)

\* C22: for non-empty trimmed lines, every line given to the experience parser
\* is consumed exactly once, as one part of one entry's assembled header or as
\* one bullet of one entry; the entries and their bullets follow the order of
\* the lines, so the lines are as many as the header parts and the bullets.
C22_EveryLineConsumedOnce ==
    pc = "parsed_experience" =>
        Consumed(sections["experience"], 1, experience, 1)

\* A header of two lines with a bullet, followed by another entry.
C22_Witness ==
    /\ pc = "parsed_experience"
    /\ Len(experience) >= 2
    /\ experience[1].raw_header =
           Join(SubSeq(sections["experience"], 1, 2), " | ")
    /\ experience[1].bullets # <<>>


\* The lines that are not empty, in order.
NonEmptyLines(lines) == SelectSeq(lines, LAMBDA l : l # "")

\* The indices of the lines of L that start an education entry as the claim
\* states it: the first line, and every later line that has more than 12 tokens
\* or is header-like.
EntryStarts(L) ==
    {k \in 1..Len(L) : k = 1 \/ WordCount(L[k]) > 12 \/ HeaderLike(L[k])}

\* The j-th index of the set S of indices, from the least on.
NthOf(S, j) == CHOOSE s \in S : Cardinality({x \in S : x <= s}) = j

\* The index of the last line before the next start after s.
LastBefore(S, s, n) == LeastOr0({x \in S : x > s} \cup {n + 1}) - 1

\* Degree and institute of the header h as the claim states them.
DegreeAndInstitute(h) ==
    LET segments == StripNonEmpty(SplitOn(h, ",", 1))
    IN  IF Len(segments) >= 2
        THEN [degree |-> segments[1], institute |-> Join(Tail(segments), ", ")]
        ELSE IF FirstAt(h, " - ") > 0
        THEN [degree |-> strip(SubSeq(h, 1, FirstAt(h, " - ") - 1)),
              institute |-> strip(SubSeq(h, FirstAt(h, " - ") + 3, Len(h)))]
        ELSE [degree |-> h, institute |-> NoneV]

\* The entry e is the entry of the lines s..last of L: its header is the first
\* of them and its bullets are the others.
EducationEntryOf(e, L, s, last) ==
    /\ e.raw_header = L[s]
    /\ e.bullets = SubSeq(L, s + 1, last)
    /\ e.degree = DegreeAndInstitute(L[s]).degree
    /\ e.institute = DegreeAndInstitute(L[s]).institute

\* C23: in the education parser the first non-empty line starts an entry and
\* each later non-empty line is a bullet of the current entry exactly when it
\* has at most 12 tokens and is not header-like, and otherwise starts an entry;
\* so every non-empty line is one entry's raw_header or one bullet, once.
\* Degree and institute are the first comma segment and the other segments,
\* else the two sides of the first " - ", else the header and null.
C23_EducationEntries ==
    pc = "parsed_education" =>
        LET L == NonEmptyLines(sections["education"])
        IN  /\ Len(education) = Cardinality(EntryStarts(L))
            /\ \A j \in 1..Len(education) :
                   EducationEntryOf(education[j], L, NthOf(EntryStarts(L), j),
                       LastBefore(EntryStarts(L), NthOf(EntryStarts(L), j), Len(L)))

\* An entry that starts at a line that is not header-like, with a bullet, and
\* then an entry that a line of more than 12 tokens starts.
C23_Witness ==
    /\ pc = "parsed_education"
    /\ Len(education) = 2
    /\ ~HeaderLike(education[1].raw_header)
    /\ Len(education[1].bullets) = 1
    /\ WordCount(education[2].raw_header) > 12


\* C24: raw_clean is the text the blocks come from: the blocks that
\* preprocess_text_into_blocks returns to parse_resume_text are the blocks of
\* raw_clean itself, split on the double line break into trimmed non-empty
\* lines, so the normalization inside preprocess_text_into_blocks changes nothing.
C24_BlocksAreBlocksOfRawClean ==
    pc = "preprocessed" => blocks = preprocess_blocks(cleaned)


\* The line holds an email, a phone number or a link that the returned contact
\* lists record.
HoldsRecordedContact(line) ==
    \/ \E m \in Range(Facts(line).emails) : m \in Range(contact.emails)
    \/ \E m \in Range(PhoneMatches(line, 1)) : m \in Range(contact.phones)
    \/ \E m \in Range(Facts(line).links) : m \in Range(contact.links)

\* The indices of the lines the claim lets the Header Extractor remove: those
\* of the scan window at or before the line of the name, and those of the scan
\* window that hold a recorded email, phone number or link.
RemovableLines ==
    {i \in Window : \/ name_index # NoIndex /\ i - 1 <= name_index
                    \/ HoldsRecordedContact(flat_lines[i])}

\* C25: the Header Extractor removes a line only when it is in the scan window
\* and is at or before the line of the name or holds a recorded email, phone
\* number or link; every other line, those at or beyond the scan window
\* included, also one whose text is that of a removed line, is kept in the
\* body, in order.
C25_OnlyHeaderLinesOfWindowRemoved ==
    pc = "extracted" =>
        remaining = AtIndices(flat_lines, (1..Len(flat_lines)) \ RemovableLines)


RECURSIVE BlocksWithin(_, _)
\* The blocks out are blocks of bs, in the order of bs, each without some of its
\* lines.
BlocksWithin(out, bs) ==
    IF out = <<>> THEN TRUE
    ELSE IF bs = <<>> THEN FALSE
    ELSE \/ IsSubsequence(Head(out), Head(bs)) /\ BlocksWithin(Tail(out), Tail(bs))
         \/ BlocksWithin(out, Tail(bs))

\* C26: the Repetition Filter keeps the order and is idempotent: the blocks it
\* returns are blocks of its input in their order, each with lines of the input
\* block in their order; no line of at most 6 words is in more than one of the
\* blocks returned; and the filter returns the blocks it has returned unchanged.
C26_FilterIdempotentInOrder ==
    pc = "filtered" =>
        /\ BlocksWithin(blocks, rf_blocks)
        /\ \A b \in 1..Len(blocks) : \A j \in 1..Len(blocks[b]) :
               WordCount(blocks[b][j]) <= 6 =>
                   BlocksHolding(blocks, blocks[b][j]) = {b}
        /\ remove_repeated_header_footer(blocks) = blocks

\* The filter has removed a block and a line of another block, and a line of 7
\* words is left in two blocks.
C26_Witness ==
    /\ pc = "filtered"
    /\ Len(blocks) >= 2
    /\ Len(blocks) < Len(rf_blocks)
    /\ Len(Flatten(blocks)) + 2 <= Len(Flatten(rf_blocks))
    /\ \E j \in 1..Len(blocks[1]) :
           /\ WordCount(blocks[1][j]) > 6
           /\ Cardinality(BlocksHolding(blocks, blocks[1][j])) = 2

====
